---- MODULE Spec2Model ----
(***************************************************************************)
(* Model of the settings version manager of the caterine backend:          *)
(* AdminService (site settings update / restore / image and menu item      *)
(* operations), ImageService (the object store client) and the SiteSettings*)
(* mongoose schema with its pre-save hook.                                 *)
(*                                                                         *)
(* The SiteSettings collection is a sequence of documents in insertion     *)
(* order; a document's id is its position.  The object store is the set    *)
(* of asset ids it currently holds.  Every action is one whole service     *)
(* call, run to completion.                                                *)
(***************************************************************************)
EXTENDS Integers, Sequences, FiniteSets, TLC

VARIABLES
  settings,   \* the SiteSettings collection: Seq of documents
  assets,     \* the object store: set of asset ids (public_id) it holds
  uploads,    \* number of uploads the object store has accepted so far
  last,       \* the last service call: its name, inputs and outcome
  admins,     \* the Admin collection: Seq of documents
  users,      \* the User collection: Seq of documents
  procs       \* the getCurrentSiteSettings calls in flight, by caller

vars == <<settings, assets, uploads, last, admins, users, procs>>

-----------------------------------------------------------------------------
(* Bounds of the model *)

\* largest number of documents in the SiteSettings collection
MaxRecords == 2
\* largest number of uploads the object store accepts
MaxUploads == 2
\* largest number of menu child items of a document
MaxItems == 2
\* largest number of documents in the Admin collection
MaxAdmins == 2
\* largest number of successful logins
MaxLogins == 2
\* largest number of documents in the User collection
MaxUsers == 2
\* largest number of documents counted, largest page and largest page size
\* a paginated query is made with
MaxTotal == 7
MaxPage == 4
MaxLimit == 4

-----------------------------------------------------------------------------
(* Values *)

\* JavaScript null (a url or fileId that is null, an actor that is not set)
NULL == "null"

\* admin ids that call the service
Admins == {"adm1", "adm2"}

DefaultBackgroundImage == [url |-> "default-bg.jpg", fileId |-> NULL]
NullImage == [url |-> NULL, fileId |-> NULL]

\* the empty object {} (also the empty array [])
EmptyObj == << >>

\* the top-level paths of a SiteSettings document
NestedKeys == {"backgroundImage", "heroSectionText", "aboutSectionText",
               "aboutSectionImage", "contactInfo", "socialMedia"}
MenuNestedKeys == {"menuMainText", "menuMainImage"}
ImageKeys == {"backgroundImage", "aboutSectionImage", "menuMainImage"}
TopKeys == NestedKeys \cup MenuNestedKeys
             \cup {"menuChildWithImage", "isActive", "updatedBy"}

\* the keys the schema declares under each nested path (strict mode keeps no other)
SchemaKeys(key) ==
  CASE key = "backgroundImage"   -> {"url", "fileId"}
    [] key = "heroSectionText"   -> {"title", "subtitle", "buttonText"}
    [] key = "aboutSectionText"  -> {"title", "content", "mission", "vision"}
    [] key = "aboutSectionImage" -> {"url", "fileId"}
    [] key = "contactInfo"       -> {"email", "phone", "address"}
    [] key = "socialMedia"       -> {"facebook", "twitter", "instagram", "linkedin"}
    [] key = "menuMainText"      -> {"title", "content"}
    [] key = "menuMainImage"     -> {"url", "fileId"}

\* the defaults of the menu paths of a new document
MenuDefaults ==
  [menuMainText |-> EmptyObj, menuMainImage |-> NullImage,
   menuChildWithImage |-> << >>]

\* the schema's defaults: what a new document holds before any field is given
SchemaDefaults ==
  [backgroundImage    |-> DefaultBackgroundImage,
   heroSectionText    |-> [buttonText |-> "Get Started"],
   aboutSectionText   |-> EmptyObj,
   aboutSectionImage  |-> NullImage,
   contactInfo        |-> EmptyObj,
   socialMedia        |-> EmptyObj,
   menuMainText       |-> MenuDefaults.menuMainText,
   menuMainImage      |-> MenuDefaults.menuMainImage,
   menuChildWithImage |-> MenuDefaults.menuChildWithImage,
   isActive           |-> TRUE,
   updatedBy          |-> NULL]

-----------------------------------------------------------------------------
(* JavaScript object helpers *)

\* C2 mutant: the incoming object replaces the stored one
SpreadReplace(cur, val) == val

\* { ...cur, ...val }: the key union, incoming keys win
Spread(cur, val) ==
  [k \in (DOMAIN cur) \cup (DOMAIN val) |-> IF k \in DOMAIN val THEN val[k] ELSE cur[k]]

\* the own enumerable keys of an array are its indices "0", "1", ...
ArrayAsObject(arr) ==
  [k \in {ToString(i - 1) : i \in DOMAIN arr} |->
     arr[CHOOSE i \in DOMAIN arr : ToString(i - 1) = k]]

\* mongoose strict mode: keys the schema does not declare are not stored
Strict(key, obj) ==
  [k \in (DOMAIN obj) \cap SchemaKeys(key) |-> obj[k]]

\* a request body value with its JavaScript type
Obj(o) == [kind |-> "object", obj |-> o]
Arr(a) == [kind |-> "array", arr |-> a]
Scl(v) == [kind |-> "scalar", val |-> v]

\* typeof value === 'object' && value !== null
IsObjectValue(pv) == pv.kind \in {"object", "array"}

\* the own enumerable properties of an object or array value
Props(pv) == IF pv.kind = "array" THEN ArrayAsObject(pv.arr) ELSE pv.obj

-----------------------------------------------------------------------------
(* The SiteSettings collection *)

\* ids of the documents with isActive = true
ActiveIds(coll) == {i \in DOMAIN coll : coll[i].isActive}

\* SiteSettings.findOne({ isActive: true }): the first match, 0 for null
FindActive(coll) ==
  IF ActiveIds(coll) = {} THEN 0
  ELSE CHOOSE i \in ActiveIds(coll) : \A j \in ActiveIds(coll) : i <= j

\* SiteSettings.updateMany(filter, { isActive: false })
DeactivateAll(coll) == [i \in DOMAIN coll |-> [coll[i] EXCEPT !.isActive = FALSE]]

\* the schema's required paths
Valid(doc) ==
  /\ "url" \in DOMAIN doc.backgroundImage
  /\ {"title", "subtitle"} \subseteq DOMAIN doc.heroSectionText
  /\ {"title", "content"} \subseteq DOMAIN doc.aboutSectionText
  /\ doc.updatedBy # NULL

\* pre('save') of a new document: a new active document deactivates all others
PreSaveNew(coll, doc) ==
  IF doc.isActive THEN DeactivateAll(coll) ELSE coll

\* new SiteSettings(fields): the given paths over the schema's defaults
NewDocument(fields) ==
  [k \in TopKeys |->
     IF k \notin DOMAIN fields THEN SchemaDefaults[k]
     ELSE IF k \in NestedKeys \cup MenuNestedKeys
          THEN Spread(SchemaDefaults[k], Strict(k, fields[k]))
          ELSE fields[k]]

\* SiteSettings.create(fields): validate, run the pre-save hook, insert
Create(coll, fields) ==
  LET doc == NewDocument(fields) IN
    IF Valid(doc)
    THEN [status |-> "ok", coll |-> Append(PreSaveNew(coll, doc), doc)]
    ELSE [status |-> "ValidationError", coll |-> coll]

-----------------------------------------------------------------------------
(* AdminService.updateSiteSettings *)

\* typeof settings[key] === 'object' && settings[key] !== null
\* (nested paths, the item array and the ObjectId of updatedBy are objects)
CurrentIsObject(key) == key # "isActive"

\* C3 mutant: the loop of the copy of the service without the menu branch,
\* in which an array is merged like any other object
UpdateFieldNoMenuBranch(key, cur, pv) ==
  IF IsObjectValue(pv)
  THEN IF CurrentIsObject(key)
       THEN IF key \in NestedKeys \cup MenuNestedKeys
            THEN Strict(key, Spread(cur, Props(pv)))
            ELSE cur
       ELSE cur
  ELSE pv.val

\* one round of the Object.keys(updateData).forEach loop: the value of
\* settings[key] after the round, from its value before and the incoming one
UpdateField(key, cur, pv) ==
  IF key = "menuChildWithImage" /\ pv.kind = "array"
  THEN pv.arr
  ELSE IF IsObjectValue(pv)
       THEN IF CurrentIsObject(key)
            THEN IF key \in NestedKeys \cup MenuNestedKeys
                 THEN Strict(key, Spread(cur, Props(pv)))
                 ELSE Spread(cur, Props(pv))
            ELSE cur
       ELSE pv.val

\* the document after the loop and  settings.updatedBy = adminId
ApplyUpdate(doc, adminId, updateData) ==
  [[k \in TopKeys |->
      IF k \in DOMAIN updateData THEN UpdateField(k, doc[k], updateData[k])
      ELSE doc[k]]
     EXCEPT !.updatedBy = adminId]

\* { ...updateData, updatedBy: adminId } as handed to SiteSettings.create
CreateFields(adminId, updateData) ==
  LET given == [k \in DOMAIN updateData |->
                  CASE updateData[k].kind = "scalar" -> updateData[k].val
                    [] k = "menuChildWithImage"      -> updateData[k].arr
                    [] OTHER                         -> Props(updateData[k])]
  IN [k \in (DOMAIN given) \cup {"updatedBy"} |->
        IF k = "updatedBy" THEN adminId ELSE given[k]]

\* the whole call: the status it ends with and the collection it leaves
UpdateSiteSettingsResult(coll, adminId, updateData) ==
  LET a == FindActive(coll) IN
    IF a # 0
    THEN LET doc == ApplyUpdate(coll[a], adminId, updateData) IN
           IF Valid(doc)
           THEN [status |-> "ok", coll |-> [coll EXCEPT ![a] = doc]]
           ELSE [status |-> "ValidationError", coll |-> coll]
    ELSE Create(coll, CreateFields(adminId, updateData))

\* the paths of a loaded document that its save writes: those whose value
\* is no longer the one that was loaded
ModifiedPaths(loaded, doc) == {k \in TopKeys : doc[k] # loaded[k]}

\* C22 mutant: a save that leaves alone every path another save has changed
\* since the document was loaded
SaveUnlessChanged(stored, loaded, doc) ==
  [k \in TopKeys |->
     IF k \in ModifiedPaths(loaded, doc) /\ stored[k] = loaded[k] THEN doc[k] ELSE stored[k]]

\* settings.save() of a document loaded earlier: the modified paths are
\* written over the stored document of the same id
SaveModified(stored, loaded, doc) ==
  [k \in TopKeys |-> IF k \in ModifiedPaths(loaded, doc) THEN doc[k] ELSE stored[k]]

-----------------------------------------------------------------------------
(* AdminService.restoreSiteSettings *)

\* C5 mutant: the restored document keeps the target's updatedBy
RestoredFieldsKeepActor(prev, adminId) ==
  [backgroundImage  |-> prev.backgroundImage,
   heroSectionText  |-> prev.heroSectionText,
   aboutSectionText |-> prev.aboutSectionText,
   contactInfo      |-> prev.contactInfo,
   socialMedia      |-> prev.socialMedia,
   updatedBy        |-> prev.updatedBy,
   isActive         |-> TRUE]

\* C6 mutant: the restored document also copies the menu child items
RestoredFieldsWithMenu(prev, adminId) ==
  [backgroundImage    |-> prev.backgroundImage,
   heroSectionText    |-> prev.heroSectionText,
   aboutSectionText   |-> prev.aboutSectionText,
   contactInfo        |-> prev.contactInfo,
   socialMedia        |-> prev.socialMedia,
   menuChildWithImage |-> prev.menuChildWithImage,
   updatedBy          |-> adminId,
   isActive           |-> TRUE]

\* the fields handed to SiteSettings.create by restoreSiteSettings
RestoredFields(prev, adminId) ==
  [backgroundImage  |-> prev.backgroundImage,
   heroSectionText  |-> prev.heroSectionText,
   aboutSectionText |-> prev.aboutSectionText,
   contactInfo      |-> prev.contactInfo,
   socialMedia      |-> prev.socialMedia,
   updatedBy        |-> adminId,
   isActive         |-> TRUE]

\* C4 mutant: the deactivate-all write runs before the lookup is checked
RestoreDeactivatesFirst(coll, adminId, settingsId) ==
  IF settingsId \notin DOMAIN coll
  THEN [status |-> "404", coll |-> DeactivateAll(coll)]
  ELSE Create(DeactivateAll(coll), RestoredFields(coll[settingsId], adminId))

\* C24 mutant: a restore that rewinds in place, making the target active again
RestoreInPlace(coll, adminId, settingsId) ==
  IF settingsId \notin DOMAIN coll
  THEN [status |-> "404", coll |-> coll]
  ELSE [status |-> "ok",
        coll |-> [DeactivateAll(coll) EXCEPT ![settingsId].isActive = TRUE,
                                             ![settingsId].updatedBy = adminId]]

\* the whole call: findById, updateMany({}, {isActive: false}), create
RestoreSiteSettingsResult(coll, adminId, settingsId) ==
  IF settingsId \notin DOMAIN coll
  THEN [status |-> "404", coll |-> coll]
  ELSE Create(DeactivateAll(coll), RestoredFields(coll[settingsId], adminId))

-----------------------------------------------------------------------------
(* ImageService: the object store client *)

\* config.fileUpload.maxFileSize (bytes)
MaxFileSize == 5242880

AllowedTypes == {"image/jpeg", "image/jpg", "image/png", "image/webp"}

\* ImageService.validateImageFile: the status it throws, "ok" when it returns
ValidateImageFile(file) ==
  IF file.isNull THEN "400"
  ELSE IF file.isArray THEN "400"
  ELSE "ok"

\* the checks of ImageService.uploadImage before the file is sent
\* (a null file makes the catch block itself throw a TypeError)
UploadChecks(file) ==
  IF file.isNull THEN "TypeError"
  ELSE IF file.name = "" \/ file.mimetype = "" \/ file.size = 0 THEN "400"
  ELSE IF file.mimetype \notin AllowedTypes THEN "400"
  ELSE IF file.size > MaxFileSize THEN "400"
  ELSE IF ~file.hasData THEN "500"
  ELSE "ok"

\* the public_id and secure_url the object store gives its n-th upload
AssetId(n) == "cld" \o ToString(n)
AssetUrl(fileId) == "http://img/" \o fileId

\* ImageService.uploadImage(file, folder); up is the object store's answer.
\* Gives the status, the new asset (NULL when none) and the store afterwards.
UploadImage(store, file, up) ==
  LET chk == UploadChecks(file) IN
    IF chk # "ok"
    THEN [status |-> chk, fileId |-> NULL, store |-> store]
    ELSE IF up = "fail"
    THEN [status |-> "500", fileId |-> NULL, store |-> store]
    ELSE [status |-> "ok", fileId |-> AssetId(store.uploads + 1),
          store |-> [assets  |-> store.assets \cup {AssetId(store.uploads + 1)},
                     uploads |-> store.uploads + 1]]

\* C7 mutant: a failed destroy is thrown on to the caller
DeleteImageRethrows(store, fileId, del) ==
  IF fileId = NULL THEN [store |-> store, attempted |-> {}, threw |-> FALSE]
  ELSE IF del = "fail"
  THEN [store |-> store, attempted |-> {fileId}, threw |-> TRUE]
  ELSE [store |-> [store EXCEPT !.assets = @ \ {fileId}],
        attempted |-> {fileId}, threw |-> FALSE]

\* ImageService.deleteImage(fileId); del is the object store's answer.
\* A falsy fileId returns at once; a failed destroy is logged, never thrown.
DeleteImage(store, fileId, del) ==
  IF fileId = NULL THEN [store |-> store, attempted |-> {}, threw |-> FALSE]
  ELSE IF del = "fail"
  THEN [store |-> store, attempted |-> {fileId}, threw |-> FALSE]
  ELSE [store |-> [store EXCEPT !.assets = @ \ {fileId}],
        attempted |-> {fileId}, threw |-> FALSE]

-----------------------------------------------------------------------------
(* AdminService: image and menu item operations *)

\* what a call gives back: status, collection, object store, the asset ids
\* whose delete was attempted and the asset it uploaded (NULL when none)
Outcome(status, coll, store, attempted, uploaded) ==
  [status |-> status, coll |-> coll, store |-> store,
   attempted |-> attempted, uploaded |-> uploaded]

\* a call that throws: nothing is saved, the object store is as the call left it
Fails(status, coll, store, attempted) == Outcome(status, coll, store, attempted, NULL)

\* settings.menuChildWithImage[itemIndex] is an item (itemIndex counts from 0)
HasItem(doc, itemIndex) == (itemIndex + 1) \in DOMAIN doc.menuChildWithImage

\* C10 mutant: an index past the end is taken as the last item
ItemIndexClamped(doc, itemIndex) ==
  IF doc.menuChildWithImage = << >> THEN -1
  ELSE IF itemIndex + 1 > Len(doc.menuChildWithImage)
  THEN Len(doc.menuChildWithImage) - 1
  ELSE itemIndex

\* the index the item operations work on: itemIndex itself, -1 when
\* !settings.menuChildWithImage[itemIndex] makes the call throw 404
ItemIndex(doc, itemIndex) ==
  IF HasItem(doc, itemIndex) THEN itemIndex ELSE -1

\* the image a document holds at a place: a top-level image path, or an item's
ImageAt(doc, key, itemIndex) ==
  IF key = "menuChildWithImage" THEN doc.menuChildWithImage[itemIndex + 1].image
  ELSE doc[key]

\* the document with the image at a place set, and updatedBy = adminId
WithImage(doc, key, itemIndex, image, adminId) ==
  IF key = "menuChildWithImage"
  THEN [doc EXCEPT !.menuChildWithImage[itemIndex + 1].image = image,
                   !.updatedBy = adminId]
  ELSE [doc EXCEPT ![key] = image, !.updatedBy = adminId]

\* C17 mutant: save writes the document over the oldest record
SaveOverOldest(coll, a, doc) ==
  IF Valid(doc) THEN [status |-> "ok", coll |-> [coll EXCEPT ![1] = doc]]
  ELSE [status |-> "ValidationError", coll |-> coll]

\* settings.save() of a loaded document: validate, then write it back
Save(coll, a, doc) ==
  IF Valid(doc) THEN [status |-> "ok", coll |-> [coll EXCEPT ![a] = doc]]
  ELSE [status |-> "ValidationError", coll |-> coll]

\* a replace that uploads the file before it looks for the active record
ReplaceImageUploadsFirst(coll, store, adminId, key, itemIndex, file, del, up) ==
  LET a == FindActive(coll) IN
    IF ValidateImageFile(file) # "ok" THEN Fails("400", coll, store, {})
    ELSE IF a = 0 THEN Fails("404", coll, UploadImage(store, file, up).store, {})
    ELSE IF key = "menuChildWithImage" /\ ItemIndex(coll[a], itemIndex) = -1
    THEN Fails("404", coll, store, {})
    ELSE
      LET ix == IF key = "menuChildWithImage" THEN ItemIndex(coll[a], itemIndex) ELSE 0
          d  == DeleteImage(store, ImageAt(coll[a], key, ix).fileId, del)
      IN
        IF d.threw THEN Fails("500", coll, d.store, d.attempted)
        ELSE
          LET u == UploadImage(d.store, file, up) IN
            IF u.status # "ok" THEN Fails(u.status, coll, u.store, d.attempted)
            ELSE
              LET image == [url |-> AssetUrl(u.fileId), fileId |-> u.fileId]
                  s == Save(coll, a, WithImage(coll[a], key, ix, image, adminId))
              IN Outcome(s.status, s.coll, u.store, d.attempted, u.fileId)

\* updateBackgroundImage, updateAboutSectionImage, updateMenuMainImage and
\* updateMenuChildImage: validate, load, (check the index,) delete the
\* previous asset, upload, set the image, save
ReplaceImageResult(coll, store, adminId, key, itemIndex, file, del, up) ==
  LET a == FindActive(coll) IN
    IF ValidateImageFile(file) # "ok" THEN Fails("400", coll, store, {})
    ELSE IF a = 0 THEN Fails("404", coll, store, {})
    ELSE IF key = "menuChildWithImage" /\ ItemIndex(coll[a], itemIndex) = -1
    THEN Fails("404", coll, store, {})
    ELSE
      LET ix == IF key = "menuChildWithImage" THEN ItemIndex(coll[a], itemIndex) ELSE 0
          d  == DeleteImage(store, ImageAt(coll[a], key, ix).fileId, del)
      IN
        IF d.threw THEN Fails("500", coll, d.store, d.attempted)
        ELSE
          LET u == UploadImage(d.store, file, up) IN
            IF u.status # "ok" THEN Fails(u.status, coll, u.store, d.attempted)
            ELSE
              LET image == [url |-> AssetUrl(u.fileId), fileId |-> u.fileId]
                  s == Save(coll, a, WithImage(coll[a], key, ix, image, adminId))
              IN Outcome(s.status, s.coll, u.store, d.attempted, u.fileId)

\* the image a remove leaves: the default url for the background, null elsewhere
RemovedImage(key) ==
  IF key = "backgroundImage" THEN DefaultBackgroundImage ELSE NullImage

\* removeBackgroundImage, removeAboutSectionImage, removeMenuMainImage and
\* removeMenuChildImage: load, (check the index,) delete the asset, reset, save
RemoveImageResult(coll, store, adminId, key, itemIndex, del) ==
  LET a == FindActive(coll) IN
    IF a = 0 THEN Fails("404", coll, store, {})
    ELSE IF key = "menuChildWithImage" /\ ItemIndex(coll[a], itemIndex) = -1
    THEN Fails("404", coll, store, {})
    ELSE
      LET ix == IF key = "menuChildWithImage" THEN ItemIndex(coll[a], itemIndex) ELSE 0
          d  == DeleteImage(store, ImageAt(coll[a], key, ix).fileId, del)
      IN
        IF d.threw THEN Fails("500", coll, d.store, d.attempted)
        ELSE
          LET s == Save(coll, a, WithImage(coll[a], key, ix, RemovedImage(key), adminId))
          IN Outcome(s.status, s.coll, d.store, d.attempted, NULL)

\* addMenuChildItem: load, push the item (image defaults to the null image), save
AddMenuChildItemResult(coll, store, adminId, itemData) ==
  LET a == FindActive(coll) IN
    IF a = 0 THEN Fails("404", coll, store, {})
    ELSE
      LET item == [title |-> itemData.title, content |-> itemData.content,
                   price |-> itemData.price,
                   image |-> IF "image" \in DOMAIN itemData THEN itemData.image
                             ELSE NullImage]
          doc == [coll[a] EXCEPT !.menuChildWithImage = Append(@, item),
                                 !.updatedBy = adminId]
          s == Save(coll, a, doc)
      IN Outcome(s.status, s.coll, store, {}, NULL)

\* updateMenuChildItem: load, check the index, delete the previous asset when
\* a new image is given, set the given fields, save.  A field of itemData
\* that is undefined is a key itemData does not have.
UpdateMenuChildItemResult(coll, store, adminId, itemIndex, itemData, del) ==
  LET a == FindActive(coll) IN
    IF a = 0 THEN Fails("404", coll, store, {})
    ELSE IF ItemIndex(coll[a], itemIndex) = -1 THEN Fails("404", coll, store, {})
    ELSE
      LET i   == ItemIndex(coll[a], itemIndex) + 1
          old == coll[a].menuChildWithImage[i]
          d   == IF "image" \in DOMAIN itemData
                 THEN DeleteImage(store, old.image.fileId, del)
                 ELSE [store |-> store, attempted |-> {}, threw |-> FALSE]
      IN
        IF d.threw THEN Fails("500", coll, d.store, d.attempted)
        ELSE
          LET item == [k \in DOMAIN old |-> IF k \in DOMAIN itemData THEN itemData[k] ELSE old[k]]
              doc  == [coll[a] EXCEPT !.menuChildWithImage[i] = item, !.updatedBy = adminId]
              s    == Save(coll, a, doc)
          IN Outcome(s.status, s.coll, d.store, d.attempted, NULL)

\* C11 mutant: the last item is removed, whatever the index
SpliceLast(arr, i) == [j \in 1 .. (Len(arr) - 1) |-> arr[j]]

\* arr.splice(i, 1) with i counted from 1
Splice(arr, i) == [j \in 1 .. (Len(arr) - 1) |-> IF j < i THEN arr[j] ELSE arr[j + 1]]

\* deleteMenuChildItem: load, check the index, delete the item's asset,
\* splice the item out, save
DeleteMenuChildItemResult(coll, store, adminId, itemIndex, del) ==
  LET a == FindActive(coll) IN
    IF a = 0 THEN Fails("404", coll, store, {})
    ELSE IF ItemIndex(coll[a], itemIndex) = -1 THEN Fails("404", coll, store, {})
    ELSE
      LET i == ItemIndex(coll[a], itemIndex) + 1
          d == DeleteImage(store, coll[a].menuChildWithImage[i].image.fileId, del)
      IN
        IF d.threw THEN Fails("500", coll, d.store, d.attempted)
        ELSE
          LET doc == [coll[a] EXCEPT !.menuChildWithImage = Splice(@, i),
                                     !.updatedBy = adminId]
              s   == Save(coll, a, doc)
          IN Outcome(s.status, s.coll, d.store, d.attempted, NULL)

-----------------------------------------------------------------------------
(* The Admin collection *)

\* passwords the model uses, with the kinds of character each holds
WeakPassword == "defaultpassword123"
StrongPassword == "Str0ng!pass"
OtherPassword == "0ther!Pass"
PasswordChars(password) ==
  IF password = WeakPassword THEN {"lower", "digit"}
  ELSE {"lower", "upper", "digit", "special"}

\* the password validator of adminSchema (and userSchema): at least one
\* lower case letter, one upper case letter, one digit and one special character
ValidPassword(password) ==
  {"lower", "upper", "digit", "special"} \subseteq PasswordChars(password)

\* bcrypt.hash(password, 12) and bcrypt.compare(candidate, hash)
Hash(password) == "bcrypt:" \o password
CorrectPassword(candidatePassword, userPassword) == Hash(candidatePassword) = userPassword

\* the ids the collection gives its documents, in insertion order
AdminId(n) == "adm" \o ToString(n)

\* pre(/^find/): queries see only documents whose active is not false
Visible(coll) == {i \in DOMAIN coll : coll[i].active # FALSE}

\* Admin.findOne(): the first visible document, 0 for null
FindOneAdmin(coll) ==
  IF Visible(coll) = {} THEN 0
  ELSE CHOOSE i \in Visible(coll) : \A j \in Visible(coll) : i <= j

\* C19 mutant: the query without the filter on active
FindAnyAdminByEmail(coll, email) ==
  LET found == {i \in DOMAIN coll : coll[i].email = email} IN
    IF found = {} THEN 0 ELSE CHOOSE i \in found : \A j \in found : i <= j

\* Admin.findOne({ email }), Admin.findOne({ email, active: { $ne: false } }):
\* the first visible document with the email, 0 for null
FindAdminByEmail(coll, email) ==
  LET found == {i \in Visible(coll) : coll[i].email = email} IN
    IF found = {} THEN 0 ELSE CHOOSE i \in found : \A j \in found : i <= j

\* Admin.create(fields): validate, hash the password, insert unless the
\* unique index on email rejects the document
CreateAdminDocument(coll, fields) ==
  IF ~ValidPassword(fields.password)
  THEN [status |-> "ValidationError", coll |-> coll, id |-> NULL]
  ELSE IF \E i \in DOMAIN coll : coll[i].email = fields.email
  THEN [status |-> "E11000", coll |-> coll, id |-> NULL]
  ELSE [status |-> "ok", id |-> AdminId(Len(coll) + 1),
        coll |-> Append(coll, [id |-> AdminId(Len(coll) + 1), name |-> fields.name,
                               email |-> fields.email, password |-> Hash(fields.password),
                               active |-> TRUE, lastLoginAt |-> 0])]

\* AdminService.createAdmin: refuse an email that a visible admin holds,
\* else create the document
CreateAdminResult(coll, adminData) ==
  IF FindAdminByEmail(coll, adminData.email) # 0
  THEN [status |-> "400", coll |-> coll, id |-> NULL]
  ELSE CreateAdminDocument(coll, adminData)

\* signToken(id)
SignToken(id) == "jwt:" \o id

\* new Date(): a time after every login recorded so far
Now(coll) ==
  LET times == {0} \cup {coll[i].lastLoginAt : i \in DOMAIN coll} IN
    1 + CHOOSE t \in times : \A u \in times : u <= t

\* AdminService.loginAdmin: 401 unless a visible admin has the email and the
\* password; else record the login time and sign a token
LoginAdminResult(coll, email, password) ==
  LET a == FindAdminByEmail(coll, email) IN
    IF a = 0 \/ ~CorrectPassword(password, coll[a].password)
    THEN [status |-> "401", coll |-> coll, token |-> NULL]
    ELSE [status |-> "ok", coll |-> [coll EXCEPT ![a].lastLoginAt = Now(coll)],
          token |-> SignToken(coll[a].id)]

\* BaseService.softDelete on the Admin model: findByIdAndUpdate(id, { active: false })
SoftDeleteResult(coll, i) ==
  IF i \notin Visible(coll) THEN [status |-> "404", coll |-> coll]
  ELSE [status |-> "ok", coll |-> [coll EXCEPT ![i].active = FALSE]]

\* the strings that can be cast to an ObjectId: the ids of documents
IsObjectId(id) == \E n \in 1 .. (MaxAdmins + 1) : id = AdminId(n)

\* AdminService.getAdminById: Admin.findById(id) rejects with a CastError for
\* a string that is no ObjectId, and the service throws 404 for null
GetAdminByIdResult(coll, id) ==
  IF ~IsObjectId(id) THEN [status |-> "CastError", found |-> 0]
  ELSE LET found == {i \in Visible(coll) : coll[i].id = id} IN
         IF found = {} THEN [status |-> "404", found |-> 0]
         ELSE [status |-> "ok", found |-> CHOOSE i \in found : TRUE]

\* AdminController.createInitialAdmin: getAdminById('any').catch(() => null),
\* 400 when that gives an admin, else createAdmin
CreateInitialAdminResult(coll, body) ==
  LET looked        == GetAdminByIdResult(coll, "any")
      existingAdmin == IF looked.status = "ok" THEN looked.found ELSE 0
  IN IF existingAdmin # 0
     THEN [status |-> "400", coll |-> coll, id |-> NULL]
     ELSE CreateAdminResult(coll, body)

-----------------------------------------------------------------------------
(* The User collection and UserService *)

UserId(n) == "usr" \o ToString(n)

\* User.findOne({ email }): the first visible document with the email, 0 for null
FindUserByEmail(coll, email) ==
  LET found == {i \in Visible(coll) : coll[i].email = email} IN
    IF found = {} THEN 0 ELSE CHOOSE i \in found : \A j \in found : i <= j

\* User.create(userData): validate, hash the password, insert unless the
\* unique index on email rejects the document
CreateUserDocument(coll, userData) ==
  IF ~ValidPassword(userData.password)
  THEN [status |-> "ValidationError", coll |-> coll, id |-> NULL]
  ELSE IF \E i \in DOMAIN coll : coll[i].email = userData.email
  THEN [status |-> "E11000", coll |-> coll, id |-> NULL]
  ELSE [status |-> "ok", id |-> UserId(Len(coll) + 1),
        coll |-> Append(coll, [id |-> UserId(Len(coll) + 1), name |-> userData.name,
                               email |-> userData.email, phone |-> userData.phone,
                               password |-> Hash(userData.password), active |-> TRUE])]

\* UserService.createUser: refuse an email that a visible user holds, else
\* create the document
CreateUserResult(coll, userData) ==
  IF FindUserByEmail(coll, userData.email) # 0
  THEN [status |-> "400", coll |-> coll, id |-> NULL]
  ELSE CreateUserDocument(coll, userData)

\* UserService.deleteUser: User.findByIdAndUpdate(id, { active: false })
DeleteUserResult(coll, i) ==
  IF i \notin Visible(coll) THEN [status |-> "404", coll |-> coll]
  ELSE [status |-> "ok", coll |-> [coll EXCEPT ![i].active = FALSE]]

\* UserService.loginUser: 401 unless a visible user has the email and the
\* password, 401 when that user's active flag is off; else sign a token
LoginUserResult(coll, email, password) ==
  LET u == FindUserByEmail(coll, email) IN
    IF u = 0 \/ ~CorrectPassword(password, coll[u].password)
    THEN [status |-> "401", token |-> NULL]
    ELSE IF ~coll[u].active
    THEN [status |-> "401", token |-> NULL]
    ELSE [status |-> "ok", token |-> SignToken(coll[u].id)]

-----------------------------------------------------------------------------
(* The authenticate and authenticateAdmin middleware *)

\* the ids tokens are signed for
AccountIds ==
  {UserId(n) : n \in 1 .. (MaxUsers + 1)} \cup {AdminId(n) : n \in 1 .. (MaxAdmins + 1)}

\* jwt.verify(token, config.jwtSecret) of a token signToken made: decoded.id
Decoded(token) == CHOOSE id \in AccountIds : SignToken(id) = token

\* a findById that the query middleware does not filter
FindByIdUnfiltered(coll, id) ==
  LET found == {i \in DOMAIN coll : coll[i].id = id} IN
    IF found = {} THEN 0 ELSE CHOOSE i \in found : TRUE

\* findById(id): the visible document with the id, 0 for null
FindById(coll, id) ==
  LET found == {i \in Visible(coll) : coll[i].id = id} IN
    IF found = {} THEN 0 ELSE CHOOSE i \in found : TRUE

\* authenticate: 401 without a token, 401 when User.findById(decoded.id)
\* gives null, else the request goes on as that user
AuthenticateResult(coll, token) ==
  IF token = NULL THEN [status |-> "401", found |-> 0]
  ELSE LET currentUser == FindById(coll, Decoded(token)) IN
         IF currentUser = 0 THEN [status |-> "401", found |-> 0]
         ELSE [status |-> "ok", found |-> currentUser]

\* authenticateAdmin: the same with Admin.findById(decoded.id)
AuthenticateAdminResult(coll, token) ==
  IF token = NULL THEN [status |-> "401", found |-> 0]
  ELSE LET currentAdmin == FindById(coll, Decoded(token)) IN
         IF currentAdmin = 0 THEN [status |-> "401", found |-> 0]
         ELSE [status |-> "ok", found |-> currentAdmin]

-----------------------------------------------------------------------------
(* AdminService.getCurrentSiteSettings *)

\* the placeholder admin of the initial setup
DefaultAdmin ==
  [name |-> "Default Admin", email |-> "admin@example.com", password |-> WeakPassword]

\* the fields of the default settings document
DefaultSettings(adminId) ==
  [backgroundImage   |-> [url |-> "default-bg.jpg", fileId |-> NULL],
   heroSectionText   |-> [title |-> "Welcome to Our Website", subtitle |-> "Discover",
                          buttonText |-> "Get Started"],
   aboutSectionText  |-> [title |-> "About Us", content |-> "We are a dedicated team",
                          mission |-> "Our mission", vision |-> "To be the leading provider"],
   aboutSectionImage |-> [url |-> NULL, fileId |-> NULL],
   contactInfo       |-> [email |-> "contact@example.com", phone |-> "+1 (555) 123-4567",
                          address |-> "123 Business Street"],
   updatedBy         |-> adminId]

\* the whole call, run alone: the status, the collections it leaves and the
\* id of the document it returns (0 when it throws)
GetCurrentSiteSettingsResult(coll, adms) ==
  LET a == FindActive(coll) IN
    IF a # 0
    THEN [status |-> "ok", coll |-> coll, admins |-> adms, returned |-> a]
    ELSE
      LET found == FindOneAdmin(adms)
          made  == IF found # 0
                   THEN [status |-> "ok", coll |-> adms, id |-> adms[found].id]
                   ELSE CreateAdminDocument(adms, DefaultAdmin)
      IN IF made.status # "ok"
         THEN [status |-> made.status, coll |-> coll, admins |-> adms, returned |-> 0]
         ELSE LET c == Create(coll, DefaultSettings(made.id)) IN
                [status |-> c.status, coll |-> c.coll, admins |-> made.coll,
                 returned |-> IF c.status = "ok" THEN Len(c.coll) ELSE 0]

-----------------------------------------------------------------------------
(* AdminController: the menu item handlers *)

\* AdminController.addMenuChildItem: check the body, upload the attached
\* image if there is one, then call the service with the item
AddMenuChildItemHandler(coll, store, adminId, body, file, up) ==
  IF ~({"title", "content", "price"} \subseteq DOMAIN body)
  THEN Fails("400", coll, store, {})
  ELSE IF file.isNull
  THEN AddMenuChildItemResult(coll, store, adminId, body)
  ELSE LET u == UploadImage(store, file, up) IN
         IF u.status # "ok" THEN Fails(u.status, coll, u.store, {})
         ELSE LET image == [url |-> AssetUrl(u.fileId), fileId |-> u.fileId]
                  r == AddMenuChildItemResult(coll, u.store, adminId, body @@ [image |-> image])
              IN [r EXCEPT !.uploaded = u.fileId]

\* AdminController.updateMenuChildItem: check the index, upload the attached
\* image if there is one, then call the service with the fields
UpdateMenuChildItemHandler(coll, store, adminId, index, body, file, del, up) ==
  IF index < 0
  THEN Fails("400", coll, store, {})
  ELSE IF file.isNull
  THEN UpdateMenuChildItemResult(coll, store, adminId, index, body, del)
  ELSE LET u == UploadImage(store, file, up) IN
         IF u.status # "ok" THEN Fails(u.status, coll, u.store, {})
         ELSE LET image == [url |-> AssetUrl(u.fileId), fileId |-> u.fileId]
                  r == UpdateMenuChildItemResult(coll, u.store, adminId, index,
                                                 body @@ [image |-> image], del)
              IN [r EXCEPT !.uploaded = u.fileId]

-----------------------------------------------------------------------------
(* Pagination *)

\* Math.floor(total / limit), the variant for C12
Floor(total, limit) == total \div limit

\* Math.ceil(total / limit) for total >= 0 and limit >= 1
Ceil(total, limit) ==
  IF total % limit = 0 THEN total \div limit ELSE (total \div limit) + 1

\* C13 mutant: an empty collection is given one (empty) page
GetPaginationMetaOnePage(total, page, limit) ==
  LET totalPages == IF total = 0 THEN 1 ELSE Ceil(total, limit) IN
    [total |-> total, page |-> page, limit |-> limit, totalPages |-> totalPages,
     hasNextPage |-> page < totalPages, hasPrevPage |-> page > 1]

\* getPaginationMeta(total, page, limit)
GetPaginationMeta(total, page, limit) ==
  LET totalPages == Ceil(total, limit) IN
    [total |-> total, page |-> page, limit |-> limit, totalPages |-> totalPages,
     hasNextPage |-> page < totalPages, hasPrevPage |-> page > 1]

\* what getSiteSettingsHistory(page, limit) returns beside the documents
HistoryMeta(coll, page, limit) ==
  LET total == Len(coll)
      totalPages == Ceil(total, limit)
  IN [total |-> total, page |-> page, totalPages |-> totalPages,
      hasNextPage |-> page < totalPages, hasPrevPage |-> page > 1]

\* what BaseService.findWithPagination returns beside the documents, for a
\* filter that total documents match
FindWithPaginationMeta(total, page, limit) ==
  LET totalPages == Ceil(total, limit)
      hasNextPage == page < totalPages
      hasPrevPage == page > 1
  IN [total |-> total, page |-> page, limit |-> limit, totalPages |-> totalPages,
      hasNextPage |-> hasNextPage, hasPrevPage |-> hasPrevPage]

-----------------------------------------------------------------------------
(* BaseController.getAll and the query features *)

\* the page size of a request that names none
DefaultLimit == 10

\* the query parameters that are no filters
ReservedKeys == {"page", "limit", "sort", "fields"}

\* model.find() behind pre(/^find/): the visible documents, in insertion order
RECURSIVE Find(_)
Find(coll) ==
  IF coll = << >> THEN << >>
  ELSE LET rest == Find(SubSeq(coll, 1, Len(coll) - 1)) IN
         IF coll[Len(coll)].active # FALSE THEN Append(rest, coll[Len(coll)]) ELSE rest

\* filter(): the documents that have the value given for every key of the
\* query that is not reserved
Matches(doc, query) ==
  \A k \in (DOMAIN query) \ ReservedKeys : k \in DOMAIN doc /\ doc[k] = query[k]

RECURSIVE Filter(_, _)
Filter(docs, query) ==
  IF docs = << >> THEN << >>
  ELSE LET rest == Filter(SubSeq(docs, 1, Len(docs) - 1), query) IN
         IF Matches(docs[Len(docs)], query) THEN Append(rest, docs[Len(docs)]) ELSE rest

\* sort() of a request without a sort parameter: newest first
RECURSIVE Sort(_)
Sort(docs) ==
  IF docs = << >> THEN << >>
  ELSE <<docs[Len(docs)]>> \o Sort(SubSeq(docs, 1, Len(docs) - 1))

\* paginate(): skip (page - 1) * limit documents, take limit
Paginate(docs, page, limit) ==
  LET skip == (page - 1) * limit
      to   == IF skip + limit < Len(docs) THEN skip + limit ELSE Len(docs)
  IN SubSeq(docs, skip + 1, to)

\* parseInt(req.query.page) || 1 and parseInt(req.query.limit) || 10
PageOf(query) == IF "page" \in DOMAIN query THEN query.page ELSE 1
LimitOf(query) == IF "limit" \in DOMAIN query THEN query.limit ELSE DefaultLimit

\* model.countDocuments(): every document of the collection (no filter is
\* given, and countDocuments is no find for the query middleware)
CountDocuments(coll) == Len(coll)

\* BaseController.getAll: the page of documents and the pagination metadata
GetAllResult(coll, query) ==
  [docs |-> Paginate(Sort(Filter(Find(coll), query)), PageOf(query), LimitOf(query)),
   meta |-> GetPaginationMeta(CountDocuments(coll), PageOf(query), LimitOf(query))]

-----------------------------------------------------------------------------
(* Inputs *)

\* a menu child item as a request body gives it
MenuItem(title, fileId) ==
  [title |-> title, content |-> "dish", price |-> 10,
   image |-> [url |-> (IF fileId = NULL THEN NULL ELSE "http://img/" \o fileId),
              fileId |-> fileId]]

\* the request bodies of updateSiteSettings the model draws from
Payloads ==
  << \* 1: a body with every required path
     [heroSectionText  |-> Obj([title |-> "Old", subtitle |-> "S", buttonText |-> "B"]),
      aboutSectionText |-> Obj([title |-> "About", content |-> "C"]),
      contactInfo      |-> Obj([email |-> "c@x.io"]),
      socialMedia      |-> Obj([facebook |-> "https://facebook.com/x"])],
     \* 2: a partial nested object
     [heroSectionText |-> Obj([title |-> "New"])],
     \* 3: an image object that names an asset
     [backgroundImage |-> Obj([url |-> "http://img/ext1", fileId |-> "ext1"])],
     \* 4: the isActive flag
     [isActive |-> Scl(FALSE)],
     \* 5: an array under a nested path
     [heroSectionText |-> Arr(<<"New">>)],
     \* 6: the updatedBy path
     [updatedBy |-> Scl("adm2")],
     \* 7: the menu child item array
     [menuChildWithImage |-> Arr(<<MenuItem("Soup", "ext2")>>)],
     \* 8: an image object that names no asset
     [backgroundImage |-> Obj([url |-> "default-bg.jpg", fileId |-> NULL])] >>

\* ids a restore may name: every id a document can have, and one more
SettingsIds == 1 .. (MaxRecords + 1)

\* an express-fileupload file; isNull: no file, isArray: several files
File(mimetype, size) ==
  [isNull |-> FALSE, isArray |-> FALSE, name |-> "pic", mimetype |-> mimetype,
   size |-> size, hasData |-> TRUE]
NullFile == [File("", 0) EXCEPT !.isNull = TRUE, !.name = ""]
ArrayFile == [File("", 0) EXCEPT !.isArray = TRUE, !.name = ""]
GoodFile == File("image/png", 1024)

\* the files the image operations are called with
Files ==
  {NullFile, ArrayFile, GoodFile, File("image/gif", 1024),
   File("image/jpeg", MaxFileSize + 1)}

\* the admin that makes the image and menu item calls
Callers == {"adm1"}

\* the answers of the object store to an upload or a destroy
Answers == {"ok", "fail"}

\* item indices the menu operations are called with: every position an item
\* can have (from 0), and one more
ItemIndices == 0 .. MaxItems

\* an image object a caller passes in, naming an asset it uploaded itself
GivenImage(fileId) == [url |-> AssetUrl(fileId), fileId |-> fileId]

\* the itemData addMenuChildItem is called with
NewItems ==
  {[title |-> "Soup", content |-> "dish", price |-> 10],
   [title |-> "Cake", content |-> "dish", price |-> 10, image |-> GivenImage("ext3")]}

\* the itemData updateMenuChildItem is called with
ItemUpdates ==
  {[price |-> 12], [image |-> GivenImage("ext4")]}

\* the record of a call, before its particular inputs and outputs are filled in
Call(op, status, actor) ==
  [op |-> op, status |-> status, actor |-> actor, payload |-> 0, target |-> 0,
   index |-> -1, file |-> NullFile, del |-> "ok", up |-> "ok",
   attempted |-> {}, uploaded |-> NULL]

\* the object store as the service sees it
Store == [assets |-> assets, uploads |-> uploads]

\* the callers that may have a getCurrentSiteSettings call in flight
Procs == {"p1", "p2"}

\* a caller without a call in flight
Idle == [pc |-> "idle", adminId |-> NULL, status |-> "ok"]
NoProcs == [p \in Procs |-> Idle]

-----------------------------------------------------------------------------
(* Actions: one per service call *)

\* the call record of an image or menu item call that ended with outcome r
CallRecord(op, adminId, itemIndex, file, del, up, r) ==
  [Call(op, r.status, adminId) EXCEPT
     !.index = itemIndex, !.file = file, !.del = del, !.up = up,
     !.attempted = r.attempted, !.uploaded = r.uploaded]

\* the state an image or menu item call leaves when it ends with outcome r
Ends(op, adminId, itemIndex, file, del, up, r) ==
  /\ settings' = r.coll
  /\ assets' = r.store.assets
  /\ uploads' = r.store.uploads
  /\ last' = CallRecord(op, adminId, itemIndex, file, del, up, r)
  /\ UNCHANGED <<admins, users, procs>>

\* an answer of the object store is an input of a call only when the call
\* asks for it: a destroy that fails needs a destroy, an upload that fails
\* needs an upload
Asked(del, up, r, rUploads) ==
  /\ del = "fail" => r.attempted # {}
  /\ up = "fail" => rUploads.uploaded # NULL

\* updateSiteSettings called by one of callers with one of the bodies
UpdateSiteSettingsWith(callers, bodies) ==
  \E adminId \in callers, p \in bodies :
    LET r == UpdateSiteSettingsResult(settings, adminId, Payloads[p]) IN
      /\ Len(r.coll) <= MaxRecords
      /\ settings' = r.coll
      /\ last' = [Call("updateSiteSettings", r.status, adminId) EXCEPT !.payload = p]
      /\ UNCHANGED <<assets, uploads, admins, users, procs>>

UpdateSiteSettings ==
  /\ Len(settings) <= MaxRecords
  /\ UpdateSiteSettingsWith(Admins, DOMAIN Payloads)

\* the first settings document comes from an update with every required path
SeedSettings ==
  /\ Len(settings) <= MaxRecords
  /\ UpdateSiteSettingsWith(Callers, {1})

RestoreSiteSettings ==
  \E adminId \in Admins, settingsId \in SettingsIds :
    LET r == RestoreSiteSettingsResult(settings, adminId, settingsId) IN
      /\ Len(r.coll) <= MaxRecords
      /\ settings' = r.coll
      /\ last' = [Call("restoreSiteSettings", r.status, adminId) EXCEPT !.target = settingsId]
      /\ UNCHANGED <<assets, uploads, admins, users, procs>>

UpdateBackgroundImage ==
  \E adminId \in Callers, file \in Files, del \in Answers, up \in Answers :
    LET r == ReplaceImageResult(settings, Store, adminId, "backgroundImage", -1, file, del, up) IN
      /\ uploads < MaxUploads
      /\ Asked(del, up, r, ReplaceImageResult(settings, Store, adminId, "backgroundImage", -1, file, del, "ok"))
      /\ Ends("updateBackgroundImage", adminId, -1, file, del, up, r)

UpdateAboutSectionImage ==
  \E adminId \in Callers, file \in Files, del \in Answers, up \in Answers :
    LET r == ReplaceImageResult(settings, Store, adminId, "aboutSectionImage", -1, file, del, up) IN
      /\ uploads < MaxUploads
      /\ Asked(del, up, r, ReplaceImageResult(settings, Store, adminId, "aboutSectionImage", -1, file, del, "ok"))
      /\ Ends("updateAboutSectionImage", adminId, -1, file, del, up, r)

UpdateMenuMainImage ==
  \E adminId \in Callers, file \in Files, del \in Answers, up \in Answers :
    LET r == ReplaceImageResult(settings, Store, adminId, "menuMainImage", -1, file, del, up) IN
      /\ uploads < MaxUploads
      /\ Asked(del, up, r, ReplaceImageResult(settings, Store, adminId, "menuMainImage", -1, file, del, "ok"))
      /\ Ends("updateMenuMainImage", adminId, -1, file, del, up, r)

UpdateMenuChildImage ==
  \E adminId \in Callers, itemIndex \in ItemIndices, file \in Files, del \in Answers, up \in Answers :
    LET r == ReplaceImageResult(settings, Store, adminId, "menuChildWithImage", itemIndex, file, del, up) IN
      /\ uploads < MaxUploads
      /\ Asked(del, up, r, ReplaceImageResult(settings, Store, adminId, "menuChildWithImage", itemIndex, file, del, "ok"))
      /\ Ends("updateMenuChildImage", adminId, itemIndex, file, del, up, r)

RemoveBackgroundImage ==
  \E adminId \in Callers, del \in Answers :
    LET r == RemoveImageResult(settings, Store, adminId, "backgroundImage", -1, del) IN
      /\ Asked(del, "ok", r, r)
      /\ Ends("removeBackgroundImage", adminId, -1, NullFile, del, "ok", r)

RemoveAboutSectionImage ==
  \E adminId \in Callers, del \in Answers :
    LET r == RemoveImageResult(settings, Store, adminId, "aboutSectionImage", -1, del) IN
      /\ Asked(del, "ok", r, r)
      /\ Ends("removeAboutSectionImage", adminId, -1, NullFile, del, "ok", r)

RemoveMenuMainImage ==
  \E adminId \in Callers, del \in Answers :
    LET r == RemoveImageResult(settings, Store, adminId, "menuMainImage", -1, del) IN
      /\ Asked(del, "ok", r, r)
      /\ Ends("removeMenuMainImage", adminId, -1, NullFile, del, "ok", r)

RemoveMenuChildImage ==
  \E adminId \in Callers, itemIndex \in ItemIndices, del \in Answers :
    LET r == RemoveImageResult(settings, Store, adminId, "menuChildWithImage", itemIndex, del) IN
      /\ Asked(del, "ok", r, r)
      /\ Ends("removeMenuChildImage", adminId, itemIndex, NullFile, del, "ok", r)

\* addMenuChildItem called with one of the items
AddMenuChildItemWith(items) ==
  \E adminId \in Callers, itemData \in items :
    LET r == AddMenuChildItemResult(settings, Store, adminId, itemData) IN
      /\ \A i \in DOMAIN r.coll : Len(r.coll[i].menuChildWithImage) <= MaxItems
      /\ Ends("addMenuChildItem", adminId, -1, NullFile, "ok", "ok", r)

AddMenuChildItem ==
  /\ Len(settings) <= MaxRecords
  /\ AddMenuChildItemWith(NewItems)

\* a menu item without an image, for the image calls to work on
AddPlainItem ==
  /\ Len(settings) <= MaxRecords
  /\ AddMenuChildItemWith({[title |-> "Soup", content |-> "dish", price |-> 10]})

\* updateMenuChildItem called with one of the updates
UpdateMenuChildItemWith(updates) ==
  \E adminId \in Callers, itemIndex \in ItemIndices, itemData \in updates, del \in Answers :
    LET r == UpdateMenuChildItemResult(settings, Store, adminId, itemIndex, itemData, del) IN
      /\ Asked(del, "ok", r, r)
      /\ Ends("updateMenuChildItem", adminId, itemIndex, NullFile, del, "ok", r)

UpdateMenuChildItem ==
  /\ Len(settings) <= MaxRecords
  /\ UpdateMenuChildItemWith(ItemUpdates)

\* an item update that gives a new price and a new image
UpdateItemPriceAndImage ==
  /\ Len(settings) <= MaxRecords
  /\ UpdateMenuChildItemWith({[price |-> 12, image |-> GivenImage("ext4")]})

DeleteMenuChildItem ==
  \E adminId \in Callers, itemIndex \in ItemIndices, del \in Answers :
    LET r == DeleteMenuChildItemResult(settings, Store, adminId, itemIndex, del) IN
      /\ Asked(del, "ok", r, r)
      /\ Ends("deleteMenuChildItem", adminId, itemIndex, NullFile, del, "ok", r)

Init ==
  /\ settings = << >>
  /\ assets = {}
  /\ uploads = 0
  /\ last = Call("none", "ok", NULL)
  /\ admins = << >>
  /\ users = << >>
  /\ procs = NoProcs

Next ==
  \/ UpdateSiteSettings
  \/ RestoreSiteSettings

Spec == Init /\ [][Next]_vars

\* the image and menu item calls, on settings an update created
NextImage ==
  \/ SeedSettings
  \/ UpdateBackgroundImage
  \/ UpdateAboutSectionImage
  \/ UpdateMenuMainImage
  \/ UpdateMenuChildImage
  \/ RemoveBackgroundImage
  \/ RemoveAboutSectionImage
  \/ RemoveMenuMainImage
  \/ RemoveMenuChildImage
  \/ AddPlainItem

SpecImage == Init /\ [][NextImage]_vars

\* the calls that take an item index, on settings an update created
NextItems ==
  \/ SeedSettings
  \/ AddPlainItem
  \/ UpdateItemPriceAndImage
  \/ UpdateMenuChildImage
  \/ RemoveMenuChildImage
  \/ DeleteMenuChildItem

SpecItems == Init /\ [][NextItems]_vars

\* the menu item calls, on settings an update created
NextMenu ==
  \/ SeedSettings
  \/ AddMenuChildItem
  \/ UpdateMenuChildItem
  \/ DeleteMenuChildItem

SpecMenu == Init /\ [][NextMenu]_vars

-----------------------------------------------------------------------------
(* getCurrentSiteSettings, one call at a time *)

\* the admins the setup creates
NewAdmins ==
  {[name |-> "Root", email |-> "root@x.io", password |-> StrongPassword],
   [name |-> "Root", email |-> "admin@example.com", password |-> StrongPassword],
   [name |-> "Root", email |-> "weak@x.io", password |-> WeakPassword]}

\* a call of an account operation: its name, outcome and the credentials given
AccountCall(op, status, email, password, token) ==
  [op |-> op, status |-> status, email |-> email, password |-> password, token |-> token]

\* createAdmin called with one of the given admins
CreateAdminWith(given) ==
  \E adminData \in given :
    LET r == CreateAdminResult(admins, adminData) IN
      /\ Len(r.coll) <= MaxAdmins
      /\ admins' = r.coll
      /\ last' = AccountCall("createAdmin", r.status, adminData.email, adminData.password,
                              IF r.status = "ok" THEN SignToken(r.id) ELSE NULL)
      /\ UNCHANGED <<settings, assets, uploads, users, procs>>

CreateAdmin ==
  /\ Len(admins) <= MaxAdmins
  /\ CreateAdminWith(NewAdmins)

\* the setup registers the first admin
CreateRootAdmin ==
  /\ admins = << >>
  /\ CreateAdminWith({[name |-> "Root", email |-> "root@x.io", password |-> StrongPassword]})

GetCurrentSiteSettings ==
  LET r == GetCurrentSiteSettingsResult(settings, admins) IN
    /\ Len(r.coll) <= MaxRecords
    /\ Len(r.admins) <= MaxAdmins
    /\ settings' = r.coll
    /\ admins' = r.admins
    /\ last' = [Call("getCurrentSiteSettings", r.status, NULL) EXCEPT !.target = r.returned]
    /\ UNCHANGED <<assets, uploads, users, procs>>

\* restoreSiteSettings stops after updateMany and before create
RestoreSiteSettingsStops ==
  \E adminId \in Callers, settingsId \in DOMAIN settings :
    /\ settings' = DeactivateAll(settings)
    /\ last' = [Call("restoreSiteSettings", "stopped", adminId) EXCEPT !.target = settingsId]
    /\ UNCHANGED <<assets, uploads, admins, users, procs>>

NextCurrent ==
  \/ CreateAdmin
  \/ SeedSettings
  \/ GetCurrentSiteSettings
  \/ RestoreSiteSettingsStops

SpecCurrent == Init /\ [][NextCurrent]_vars

-----------------------------------------------------------------------------
(* Admin accounts *)

\* the credentials a login is tried with
Emails == {"root@x.io", "admin@example.com", "nobody@x.io"}
Passwords == {StrongPassword, OtherPassword}

LoginAdmin ==
  \E email \in Emails, password \in Passwords :
    LET r == LoginAdminResult(admins, email, password) IN
      /\ Now(admins) <= MaxLogins
      /\ admins' = r.coll
      /\ last' = AccountCall("loginAdmin", r.status, email, password, r.token)
      /\ UNCHANGED <<settings, assets, uploads, users, procs>>

DeactivateAdmin ==
  \E i \in DOMAIN admins :
    LET r == SoftDeleteResult(admins, i) IN
      /\ admins' = r.coll
      /\ last' = AccountCall("softDelete", r.status, admins[i].email, NULL, NULL)
      /\ UNCHANGED <<settings, assets, uploads, users, procs>>

\* the users that register
NewUsers ==
  {[name |-> "Ann", email |-> e, phone |-> "5551234567", password |-> pw] :
     e \in {"ann@x.io", "bob@x.io"}, pw \in {StrongPassword, WeakPassword}}

CreateUser ==
  \E userData \in NewUsers :
    LET r == CreateUserResult(users, userData) IN
      /\ Len(r.coll) <= MaxUsers
      /\ users' = r.coll
      /\ last' = AccountCall("createUser", r.status, userData.email, userData.password,
                              IF r.status = "ok" THEN SignToken(r.id) ELSE NULL)
      /\ UNCHANGED <<settings, assets, uploads, admins, procs>>

\* deleteUser called with the id of a document or an id no document has
DeleteUser ==
  \E i \in 1 .. (MaxUsers + 1) :
    LET r == DeleteUserResult(users, i) IN
      /\ users' = r.coll
      /\ last' = AccountCall("deleteUser", r.status,
                              IF i \in DOMAIN users THEN users[i].email ELSE NULL, NULL, NULL)
      /\ UNCHANGED <<settings, assets, uploads, admins, procs>>

\* the credentials of a user login
UserEmails == {"ann@x.io", "bob@x.io", "nobody@x.io"}

LoginUser ==
  \E email \in UserEmails, password \in Passwords :
    LET r == LoginUserResult(users, email, password) IN
      /\ last' = AccountCall("loginUser", r.status, email, password, r.token)
      /\ UNCHANGED <<settings, assets, uploads, admins, users, procs>>

\* the bearer tokens of a request: none, or one signed for a user or an admin
Tokens == {NULL} \cup {SignToken(id) : id \in AccountIds}

\* a request to a route behind authenticate
Authenticate ==
  \E token \in Tokens :
    LET r == AuthenticateResult(users, token) IN
      /\ last' = AccountCall("authenticate", r.status, NULL, NULL, token)
      /\ UNCHANGED <<settings, assets, uploads, admins, users, procs>>

\* a request to a route behind authenticateAdmin
AuthenticateAdmin ==
  \E token \in Tokens :
    LET r == AuthenticateAdminResult(admins, token) IN
      /\ last' = AccountCall("authenticateAdmin", r.status, NULL, NULL, token)
      /\ UNCHANGED <<settings, assets, uploads, admins, users, procs>>

\* registration, login, authenticated requests and soft deletion
NextAccess ==
  \/ CreateUser
  \/ LoginUser
  \/ Authenticate
  \/ DeleteUser
  \/ CreateAdmin
  \/ LoginAdmin
  \/ AuthenticateAdmin
  \/ DeactivateAdmin

SpecAccess == Init /\ [][NextAccess]_vars

\* the record of a getAll request: its query, the documents and the metadata
ListCall(op, query, docs, meta) ==
  [op |-> op, status |-> "ok", query |-> query, docs |-> docs, meta |-> meta]

\* the query parameters of a getAll request: no parameter, a page and a page
\* size, and the same with a filter on the email
Queries ==
  {<< >>} \cup
  {[page |-> p, limit |-> l] : p \in 1 .. MaxPage, l \in 1 .. MaxLimit} \cup
  {[page |-> p, limit |-> l, email |-> e] :
     p \in 1 .. MaxPage, l \in 1 .. MaxLimit, e \in {"ann@x.io", "nobody@x.io"}}

\* GET of the users through BaseController.getAll
GetAll ==
  \E query \in Queries :
    LET r == GetAllResult(users, query) IN
      /\ last' = ListCall("getAll", query, r.docs, r.meta)
      /\ UNCHANGED <<settings, assets, uploads, admins, users, procs>>

\* users register and are soft-deleted, and are listed in between
NextList ==
  \/ CreateUser
  \/ DeleteUser
  \/ GetAll

SpecList == Init /\ [][NextList]_vars

NextAccounts ==
  \/ CreateUser
  \/ DeleteUser
  \/ CreateAdmin
  \/ DeactivateAdmin

SpecAccounts == Init /\ [][NextAccounts]_vars

\* POST /setup
CreateInitialAdmin ==
  \E body \in NewAdmins :
    LET r == CreateInitialAdminResult(admins, body) IN
      /\ Len(r.coll) <= MaxAdmins
      /\ admins' = r.coll
      /\ last' = AccountCall("createInitialAdmin", r.status, body.email, body.password,
                              IF r.status = "ok" THEN SignToken(r.id) ELSE NULL)
      /\ UNCHANGED <<settings, assets, uploads, users, procs>>

NextSetup ==
  \/ CreateInitialAdmin
  \/ LoginAdmin
  \/ DeactivateAdmin

SpecSetup == Init /\ [][NextSetup]_vars

NextLogin ==
  \/ CreateAdmin
  \/ LoginAdmin
  \/ DeactivateAdmin

SpecLogin == Init /\ [][NextLogin]_vars

-----------------------------------------------------------------------------
(* Every kind of operation of the settings service, one call at a time *)

\* an update of one nested field
UpdateHeroTitle ==
  /\ Len(settings) <= MaxRecords
  /\ UpdateSiteSettingsWith(Callers, {2})

\* restoreSiteSettings called by the one caller
RestoreByCaller ==
  \E adminId \in Callers, settingsId \in SettingsIds :
    LET r == RestoreSiteSettingsResult(settings, adminId, settingsId) IN
      /\ Len(r.coll) <= MaxRecords
      /\ settings' = r.coll
      /\ last' = [Call("restoreSiteSettings", r.status, adminId) EXCEPT !.target = settingsId]
      /\ UNCHANGED <<assets, uploads, admins, users, procs>>

\* the first updateBackgroundImage, with a file that passes every check, the
\* store answering
ReplaceBackground ==
  \E adminId \in Callers :
    LET r == ReplaceImageResult(settings, Store, adminId, "backgroundImage", -1, GoodFile, "ok", "ok") IN
      /\ uploads = 0
      /\ Ends("updateBackgroundImage", adminId, -1, GoodFile, "ok", "ok", r)

\* removeBackgroundImage, the store answering
RemoveBackground ==
  \E adminId \in Callers :
    LET r == RemoveImageResult(settings, Store, adminId, "backgroundImage", -1, "ok") IN
      /\ Len(settings) <= MaxRecords + 1
      /\ Ends("removeBackgroundImage", adminId, -1, NullFile, "ok", "ok", r)

\* addMenuChildItem on a menu without items
AddFirstItem ==
  /\ FindActive(settings) # 0 => settings[FindActive(settings)].menuChildWithImage = << >>
  /\ AddMenuChildItemWith({[title |-> "Soup", content |-> "dish", price |-> 10]})

\* updateMenuChildItem: a new price for the first item
UpdateItemPrice ==
  \E adminId \in Callers :
    LET r == UpdateMenuChildItemResult(settings, Store, adminId, 0, [price |-> 12], "ok") IN
      /\ Len(settings) <= MaxRecords + 1
      /\ Ends("updateMenuChildItem", adminId, 0, NullFile, "ok", "ok", r)

\* deleteMenuChildItem of the first item, the store answering
DeleteFirstItem ==
  \E adminId \in Callers :
    LET r == DeleteMenuChildItemResult(settings, Store, adminId, 0, "ok") IN
      /\ Len(settings) <= MaxRecords + 1
      /\ Ends("deleteMenuChildItem", adminId, 0, NullFile, "ok", "ok", r)

NextHistory ==
  \/ CreateRootAdmin
  \/ GetCurrentSiteSettings
  \/ UpdateHeroTitle
  \/ RestoreByCaller
  \/ ReplaceBackground
  \/ RemoveBackground
  \/ AddFirstItem
  \/ UpdateItemPrice
  \/ DeleteFirstItem

SpecHistory == Init /\ [][NextHistory]_vars

-----------------------------------------------------------------------------
(* Requests to the menu item handlers *)

\* the bodies of the requests
ItemBodies ==
  {[title |-> "Soup", content |-> "dish", price |-> 10], [title |-> "Soup"]}

\* the files attached: none, or one the upload accepts
Attached == {NullFile, GoodFile}

\* the :itemIndex of a request, parsed
RequestIndices == -1 .. MaxItems

\* POST of a menu item
AddMenuChildItemRequest ==
  \E adminId \in Callers, body \in ItemBodies, file \in Attached, up \in Answers :
    LET r == AddMenuChildItemHandler(settings, Store, adminId, body, file, up) IN
      /\ r.store.uploads <= MaxUploads
      /\ \A i \in DOMAIN r.coll : Len(r.coll[i].menuChildWithImage) <= MaxItems
      /\ Asked("ok", up, r, AddMenuChildItemHandler(settings, Store, adminId, body, file, "ok"))
      /\ Ends("addMenuChildItemRequest", adminId, -1, file, "ok", up, r)

\* PATCH of a menu item
UpdateMenuChildItemRequest ==
  \E adminId \in Callers, index \in RequestIndices, file \in Attached,
     del \in Answers, up \in Answers :
    LET r == UpdateMenuChildItemHandler(settings, Store, adminId, index, [price |-> 12], file, del, up) IN
      /\ r.store.uploads <= MaxUploads
      /\ Asked(del, up, r, UpdateMenuChildItemHandler(settings, Store, adminId, index,
                                                       [price |-> 12], file, del, "ok"))
      /\ Ends("updateMenuChildItemRequest", adminId, index, file, del, up, r)

NextRequests ==
  \/ SeedSettings
  \/ AddMenuChildItemRequest
  \/ UpdateMenuChildItemRequest

SpecRequests == Init /\ [][NextRequests]_vars

-----------------------------------------------------------------------------
(* Versions and their assets: restore with background image replace and remove *)

\* restoreSiteSettings of any version
RestoreVersion ==
  \E adminId \in Callers, settingsId \in DOMAIN settings :
    LET r == RestoreSiteSettingsResult(settings, adminId, settingsId) IN
      /\ Len(r.coll) <= MaxRecords + 1
      /\ settings' = r.coll
      /\ last' = [Call("restoreSiteSettings", r.status, adminId) EXCEPT !.target = settingsId]
      /\ UNCHANGED <<assets, uploads, admins, users, procs>>

\* updateBackgroundImage with a file that passes every check, the store answering
UploadBackground ==
  \E adminId \in Callers :
    LET r == ReplaceImageResult(settings, Store, adminId, "backgroundImage", -1, GoodFile, "ok", "ok") IN
      /\ uploads < MaxUploads
      /\ Ends("updateBackgroundImage", adminId, -1, GoodFile, "ok", "ok", r)

NextAssets ==
  \/ SeedSettings
  \/ RestoreVersion
  \/ UploadBackground
  \/ RemoveBackground

SpecAssets == Init /\ [][NextAssets]_vars

-----------------------------------------------------------------------------
(* getCurrentSiteSettings, calls interleaved at their awaits *)

\* the caller moves on, keeping what the step read or wrote
Goto(p, pc, adminId, status) ==
  procs' = [procs EXCEPT ![p] = [pc |-> pc, adminId |-> adminId, status |-> status]]

\* await SiteSettings.findOne({ isActive: true })
FindActiveSettings ==
  \E p \in Procs :
    /\ procs[p].pc = "idle"
    /\ IF FindActive(settings) # 0
       THEN Goto(p, "done", NULL, "ok")
       ELSE Goto(p, "findAdmin", NULL, "ok")
    /\ UNCHANGED <<settings, assets, uploads, last, admins, users>>

\* await Admin.findOne()
FindDefaultAdmin ==
  \E p \in Procs :
    /\ procs[p].pc = "findAdmin"
    /\ IF FindOneAdmin(admins) # 0
       THEN Goto(p, "preSave", admins[FindOneAdmin(admins)].id, "ok")
       ELSE Goto(p, "createAdmin", NULL, "ok")
    /\ UNCHANGED <<settings, assets, uploads, last, admins, users>>

\* await Admin.create({ name: 'Default Admin', ... })
CreateDefaultAdmin ==
  \E p \in Procs :
    LET r == CreateAdminDocument(admins, DefaultAdmin) IN
      /\ procs[p].pc = "createAdmin"
      /\ admins' = r.coll
      /\ IF r.status = "ok"
         THEN Goto(p, "preSave", r.id, "ok")
         ELSE Goto(p, "done", NULL, r.status)
      /\ UNCHANGED <<settings, assets, uploads, last, users>>

\* SiteSettings.create, first write: the updateMany of the pre-save hook
PreSaveSettings ==
  \E p \in Procs :
    /\ procs[p].pc = "preSave"
    /\ settings' = PreSaveNew(settings, NewDocument(DefaultSettings(procs[p].adminId)))
    /\ Goto(p, "insert", procs[p].adminId, "ok")
    /\ UNCHANGED <<assets, uploads, last, admins, users>>

\* SiteSettings.create, second write: the insert of the new document
InsertSettings ==
  \E p \in Procs :
    /\ procs[p].pc = "insert"
    /\ settings' = Append(settings, NewDocument(DefaultSettings(procs[p].adminId)))
    /\ Goto(p, "done", procs[p].adminId, "ok")
    /\ UNCHANGED <<assets, uploads, last, admins, users>>

NextBoot ==
  \/ CreateAdmin
  \/ FindActiveSettings
  \/ FindDefaultAdmin
  \/ CreateDefaultAdmin
  \/ PreSaveSettings
  \/ InsertSettings

SpecBoot == Init /\ [][NextBoot]_vars

-----------------------------------------------------------------------------
(* updateSiteSettings, calls interleaved at their awaits *)

\* the bodies of the concurrent updates
Bodies ==
  << [heroSectionText |-> Obj([title |-> "New"])],
     [heroSectionText |-> Obj([subtitle |-> "T"])],
     [isActive |-> Scl(FALSE)],
     [isActive |-> Scl(TRUE)] >>

\* the admin on whose behalf a caller updates
ActorOf(p) == IF p = "p1" THEN "adm1" ELSE "adm2"

\* a call between its awaits: the body, the id and the value of the document
\* it loaded, and the document as the loop left it
Updating(pc, adminId, status, body, a, loaded, doc) ==
  [pc |-> pc, adminId |-> adminId, status |-> status, body |-> body,
   a |-> a, loaded |-> loaded, doc |-> doc]

\* await SiteSettings.findOne({ isActive: true }) and the forEach loop
LoadForUpdate ==
  \E p \in Procs, b \in DOMAIN Bodies :
    LET a == FindActive(settings) IN
      /\ procs[p].pc = "idle"
      /\ procs' = [procs EXCEPT ![p] =
           IF a # 0
           THEN Updating("save", ActorOf(p), "ok", b, a, settings[a],
                         ApplyUpdate(settings[a], ActorOf(p), Bodies[b]))
           ELSE Updating("create", ActorOf(p), "ok", b, 0, << >>, << >>)]
      /\ UNCHANGED <<settings, assets, uploads, last, admins, users>>

\* await settings.save()
SaveUpdate ==
  \E p \in Procs :
    LET u == procs[p] IN
      /\ u.pc = "save"
      /\ IF Valid(u.doc)
         THEN /\ settings' = [settings EXCEPT ![u.a] = SaveModified(settings[u.a], u.loaded, u.doc)]
              /\ procs' = [procs EXCEPT ![p].pc = "done"]
         ELSE /\ settings' = settings
              /\ procs' = [procs EXCEPT ![p].pc = "done", ![p].status = "ValidationError"]
      /\ last' = [Call("updateSiteSettings", procs'[p].status, u.adminId) EXCEPT !.payload = u.body]
      /\ UNCHANGED <<assets, uploads, admins, users>>

\* await SiteSettings.create({ ...updateData, updatedBy: adminId })
CreateUpdate ==
  \E p \in Procs :
    LET u == procs[p]
        r == Create(settings, CreateFields(u.adminId, Bodies[u.body]))
    IN /\ u.pc = "create"
       /\ settings' = r.coll
       /\ procs' = [procs EXCEPT ![p].pc = "done", ![p].status = r.status]
       /\ last' = [Call("updateSiteSettings", r.status, u.adminId) EXCEPT !.payload = u.body]
       /\ UNCHANGED <<assets, uploads, admins, users>>

\* the first document is there before the concurrent calls start
SeedFirst ==
  /\ settings = << >>
  /\ \A p \in Procs : procs[p].pc = "idle"
  /\ UpdateSiteSettingsWith(Callers, {1})

NextUpdates ==
  \/ SeedFirst
  \/ LoadForUpdate
  \/ SaveUpdate
  \/ CreateUpdate

SpecUpdates == Init /\ [][NextUpdates]_vars

\* both calls have loaded the same active document and have completed
BothUpdated ==
  /\ \A p \in Procs : procs[p].pc = "done" /\ procs[p].a # 0
  /\ procs["p1"].a = procs["p2"].a

\* the caller whose save came last, and the other one
LastSaver == CHOOSE p \in Procs : ActorOf(p) = last.actor
FirstSaver == CHOOSE p \in Procs : p # LastSaver

\* the top-level fields both bodies touch
BothTouch == (DOMAIN Bodies[procs["p1"].body]) \cap (DOMAIN Bodies[procs["p2"].body])

-----------------------------------------------------------------------------
(* restoreSiteSettings, calls interleaved at their awaits *)

\* a call between its awaits: the fields it will create the new document from
Restoring(pc, adminId, status, fields) ==
  [pc |-> pc, adminId |-> adminId, status |-> status, fields |-> fields]

\* await SiteSettings.findById(settingsId)
FindForRestore ==
  \E p \in Procs, settingsId \in SettingsIds :
    /\ procs[p].pc = "idle"
    /\ procs' = [procs EXCEPT ![p] =
         IF settingsId \in DOMAIN settings
         THEN Restoring("updateMany", ActorOf(p), "ok",
                        RestoredFields(settings[settingsId], ActorOf(p)))
         ELSE Restoring("done", ActorOf(p), "404", << >>)]
    /\ UNCHANGED <<settings, assets, uploads, last, admins, users>>

\* await SiteSettings.updateMany({}, { isActive: false })
DeactivateForRestore ==
  \E p \in Procs :
    /\ procs[p].pc = "updateMany"
    /\ settings' = DeactivateAll(settings)
    /\ procs' = [procs EXCEPT ![p].pc = "preSave"]
    /\ UNCHANGED <<assets, uploads, last, admins, users>>

\* SiteSettings.create, first write: validation and the updateMany of the
\* pre-save hook
PreSaveRestore ==
  \E p \in Procs :
    LET doc == NewDocument(procs[p].fields) IN
      /\ procs[p].pc = "preSave"
      /\ IF Valid(doc)
         THEN /\ settings' = PreSaveNew(settings, doc)
              /\ procs' = [procs EXCEPT ![p].pc = "insert"]
         ELSE /\ settings' = settings
              /\ procs' = [procs EXCEPT ![p].pc = "done", ![p].status = "ValidationError"]
      /\ UNCHANGED <<assets, uploads, last, admins, users>>

\* SiteSettings.create, second write: the insert of the new document
InsertRestore ==
  \E p \in Procs :
    /\ procs[p].pc = "insert"
    /\ settings' = Append(settings, NewDocument(procs[p].fields))
    /\ procs' = [procs EXCEPT ![p].pc = "done"]
    /\ UNCHANGED <<assets, uploads, last, admins, users>>

NextRestores ==
  \/ SeedFirst
  \/ UpdateHeroTitle
  \/ RestoreByCaller
  \/ FindForRestore
  \/ DeactivateForRestore
  \/ PreSaveRestore
  \/ InsertRestore

SpecRestores == Init /\ [][NextRestores]_vars

-----------------------------------------------------------------------------
(* The image and menu item calls while no record is active *)

\* updateSiteSettings with { isActive: false }: the active record is switched off
DeactivateSettings ==
  /\ FindActive(settings) # 0
  /\ UpdateSiteSettingsWith(Callers, {4})

\* the image and menu item calls, made while no record is active
UpdateBackgroundImageDormant ==
  /\ FindActive(settings) = 0
  /\ UpdateBackgroundImage

UpdateAboutSectionImageDormant ==
  /\ FindActive(settings) = 0
  /\ UpdateAboutSectionImage

UpdateMenuMainImageDormant ==
  /\ FindActive(settings) = 0
  /\ UpdateMenuMainImage

UpdateMenuChildImageDormant ==
  /\ FindActive(settings) = 0
  /\ UpdateMenuChildImage

RemoveBackgroundImageDormant ==
  /\ FindActive(settings) = 0
  /\ RemoveBackgroundImage

RemoveAboutSectionImageDormant ==
  /\ FindActive(settings) = 0
  /\ RemoveAboutSectionImage

RemoveMenuMainImageDormant ==
  /\ FindActive(settings) = 0
  /\ RemoveMenuMainImage

RemoveMenuChildImageDormant ==
  /\ FindActive(settings) = 0
  /\ RemoveMenuChildImage

AddMenuChildItemDormant ==
  /\ FindActive(settings) = 0
  /\ AddMenuChildItem

UpdateMenuChildItemDormant ==
  /\ FindActive(settings) = 0
  /\ UpdateMenuChildItem

DeleteMenuChildItemDormant ==
  /\ FindActive(settings) = 0
  /\ DeleteMenuChildItem

\* a record, with or without an uploaded background image and a menu item,
\* is switched off; the calls are made then, and before any record exists
NextDormant ==
  \/ SeedFirst
  \/ UploadBackground
  \/ AddPlainItem
  \/ DeactivateSettings
  \/ UpdateBackgroundImageDormant
  \/ UpdateAboutSectionImageDormant
  \/ UpdateMenuMainImageDormant
  \/ UpdateMenuChildImageDormant
  \/ RemoveBackgroundImageDormant
  \/ RemoveAboutSectionImageDormant
  \/ RemoveMenuMainImageDormant
  \/ RemoveMenuChildImageDormant
  \/ AddMenuChildItemDormant
  \/ UpdateMenuChildItemDormant
  \/ DeleteMenuChildItemDormant

SpecDormant == Init /\ [][NextDormant]_vars

-----------------------------------------------------------------------------
(* Paginated queries *)

\* the record of a paginated query: the number of documents there are, the
\* page and page size asked for, and the metadata returned
PageCall(op, total, page, limit, meta) ==
  [op |-> op, status |-> "ok", total |-> total, page |-> page, limit |-> limit,
   meta |-> meta]

\* the document the first full update creates
SeedDocument == NewDocument(CreateFields("adm1", Payloads[1]))

\* the collection after that update and total - 1 restores of it
History(total) ==
  [i \in 1 .. total |-> [SeedDocument EXCEPT !.isActive = (i = total)]]

\* a collection of total documents and a query for a page of it
InitPage ==
  \E total \in 0 .. MaxTotal, page \in 1 .. MaxPage, limit \in 1 .. MaxLimit :
    /\ settings = History(total)
    /\ assets = {}
    /\ uploads = 0
    /\ last = PageCall("none", total, page, limit, << >>)
    /\ admins = << >>
    /\ users = << >>
    /\ procs = NoProcs

GetPaginationMetaCall ==
  /\ last' = PageCall("getPaginationMeta", last.total, last.page, last.limit,
                      GetPaginationMeta(last.total, last.page, last.limit))
  /\ UNCHANGED <<settings, assets, uploads, admins, users, procs>>

GetSiteSettingsHistory ==
  /\ last' = PageCall("getSiteSettingsHistory", last.total, last.page, last.limit,
                      HistoryMeta(settings, last.page, last.limit))
  /\ UNCHANGED <<settings, assets, uploads, admins, users, procs>>

FindWithPagination ==
  /\ last' = PageCall("findWithPagination", last.total, last.page, last.limit,
                      FindWithPaginationMeta(last.total, last.page, last.limit))
  /\ UNCHANGED <<settings, assets, uploads, admins, users, procs>>

NextPage ==
  \/ GetPaginationMetaCall
  \/ GetSiteSettingsHistory
  \/ FindWithPagination

SpecPage == InitPage /\ [][NextPage]_vars

-----------------------------------------------------------------------------
(* Properties of updateSiteSettings and restoreSiteSettings (under Spec) *)

\* C1 (as stated, violated): after every updateSiteSettings or
\* restoreSiteSettings call that ends without an error, exactly one document
\* of the collection has isActive = true.
C1_ExactlyOneActive ==
  (last.op \in {"updateSiteSettings", "restoreSiteSettings"} /\ last.status = "ok")
    => Cardinality(ActiveIds(settings)) = 1

C4_RestoreUnknownId ==
  [][(last'.op = "restoreSiteSettings" /\ last'.target \notin DOMAIN settings) =>
       (last'.status = "404" /\ settings' = settings)
    ]_vars

\* C4 witness: a restore of an unknown id ended with 404 while the collection
\* holds an active document.
C4_Witness ==
  /\ last.op = "restoreSiteSettings"
  /\ last.status = "404"
  /\ last.target \notin DOMAIN settings
  /\ ActiveIds(settings) # {}

\* C5: a restoreSiteSettings call that succeeds appends exactly one
\* document; the new document is active, names the caller in updatedBy and
\* holds the target's backgroundImage, heroSectionText, aboutSectionText,
\* contactInfo and socialMedia; the target keeps every path but isActive.
C5_RestoreCopies ==
  [][(last'.op = "restoreSiteSettings" /\ last'.status = "ok") =>
       LET t == last'.target
           n == Len(settings')
       IN /\ n = Len(settings) + 1
          /\ settings'[n].isActive
          /\ settings'[n].updatedBy = last'.actor
          /\ \A k \in {"backgroundImage", "heroSectionText", "aboutSectionText",
                       "contactInfo", "socialMedia"} :
               settings'[n][k] = settings[t][k]
          /\ \A k \in TopKeys \ {"isActive"} : settings'[t][k] = settings[t][k]
    ]_vars

\* C5 witness: a restore succeeded whose caller is not the admin that wrote
\* the target, and whose target holds an image and merged text.
C5_Witness ==
  /\ last.op = "restoreSiteSettings"
  /\ last.status = "ok"
  /\ last.actor # settings[last.target].updatedBy
  /\ last.target # Len(settings)
  /\ settings[last.target].backgroundImage.fileId # NULL

\* C6: the document a successful restoreSiteSettings call creates holds no
\* menu child items, whatever menu items the target holds.
C6_RestoreExcludesMenu ==
  (last.op = "restoreSiteSettings" /\ last.status = "ok")
    => settings[Len(settings)].menuChildWithImage = << >>

\* C6 witness: a restore succeeded whose target holds a menu child item.
C6_Witness ==
  /\ last.op = "restoreSiteSettings"
  /\ last.status = "ok"
  /\ last.target # Len(settings)
  /\ settings[last.target].menuChildWithImage # << >>

\* C8 (as stated, violated): whenever a call changes the image held by an
\* image path of the active document, or by one of its menu child items, and
\* the image held before names an asset, the call attempts to delete that
\* asset from the object store.
C8_DeleteAttempted ==
  [][(FindActive(settings) # 0 /\ FindActive(settings') = FindActive(settings)) =>
       LET a   == FindActive(settings)
           old == settings[a]
           new == settings'[a]
       IN /\ \A k \in ImageKeys :
               (new[k] # old[k] /\ old[k].fileId # NULL) =>
                 old[k].fileId \in last'.attempted
          /\ \A i \in DOMAIN old.menuChildWithImage :
               (/\ old.menuChildWithImage[i].image.fileId # NULL
                /\ (i \in DOMAIN new.menuChildWithImage =>
                      new.menuChildWithImage[i].image # old.menuChildWithImage[i].image))
                 => old.menuChildWithImage[i].image.fileId \in last'.attempted
    ]_vars

-----------------------------------------------------------------------------
(* Properties of the image calls (under SpecImage) *)

\* C7: when the destroy of the previous asset fails in updateBackgroundImage,
\* updateAboutSectionImage, updateMenuMainImage or updateMenuChildImage, and
\* the file is one the upload accepts and the object store stores, the call
\* succeeds, the new asset is in the object store and the image the call is
\* about holds the new asset's url and id in the saved document.
C7_NonFatalCleanup ==
  (/\ last.op \in {"updateBackgroundImage", "updateAboutSectionImage",
                   "updateMenuMainImage", "updateMenuChildImage"}
   /\ last.del = "fail"
   /\ last.attempted # {}
   /\ UploadChecks(last.file) = "ok"
   /\ last.up = "ok")
    => /\ last.status = "ok"
       /\ last.uploaded # NULL
       /\ last.uploaded \in assets
       /\ FindActive(settings) # 0
       /\ LET doc == settings[FindActive(settings)]
              image == CASE last.op = "updateBackgroundImage"   -> doc.backgroundImage
                         [] last.op = "updateAboutSectionImage" -> doc.aboutSectionImage
                         [] last.op = "updateMenuMainImage"     -> doc.menuMainImage
                         [] OTHER -> doc.menuChildWithImage[last.index + 1].image
          IN image = [url |-> AssetUrl(last.uploaded), fileId |-> last.uploaded]

\* C7 witness: a menu child image was replaced although the destroy of the
\* asset it held before failed; that asset is still in the object store.
C7_Witness ==
  /\ last.op = "updateMenuChildImage"
  /\ last.del = "fail"
  /\ last.attempted # {}
  /\ last.attempted \subseteq assets
  /\ last.status = "ok"
  /\ last.uploaded \in assets

\* C9 (as stated, violated): an image replace call on an active document
\* (and an existing item) with a file that is null, an array, of a type that
\* is not allowed or larger than the maximum ends with 400 with no destroy
\* attempted, and leaves the object store and the collection as they were.
C9_ValidatedBeforeDelete ==
  [][(/\ last'.op \in {"updateBackgroundImage", "updateAboutSectionImage",
                       "updateMenuMainImage", "updateMenuChildImage"}
      /\ FindActive(settings) # 0
      /\ (last'.op = "updateMenuChildImage" =>
            HasItem(settings[FindActive(settings)], last'.index))
      /\ \/ last'.file.isNull
         \/ last'.file.isArray
         \/ last'.file.mimetype \notin AllowedTypes
         \/ last'.file.size > MaxFileSize)
       => /\ last'.status = "400"
          /\ last'.attempted = {}
          /\ assets' = assets
          /\ settings' = settings
    ]_vars

-----------------------------------------------------------------------------
(* Properties of the calls that take an item index (under SpecItems) *)

-----------------------------------------------------------------------------
(* Properties of the menu item calls (under SpecMenu) *)

\* C11: a deleteMenuChildItem call that succeeds at index i of a list of n
\* items leaves n - 1 items: the items before i are where they were, and
\* every item after i is one position lower.
C11_DeleteShifts ==
  [][(last'.op = "deleteMenuChildItem" /\ last'.status = "ok") =>
       LET a   == FindActive(settings)
           old == settings[a].menuChildWithImage
           new == settings'[a].menuChildWithImage
           i   == last'.index + 1
       IN /\ i \in DOMAIN old
          /\ Len(new) = Len(old) - 1
          /\ \A j \in 1 .. (i - 1) : new[j] = old[j]
          /\ \A j \in (i + 1) .. Len(old) : new[j - 1] = old[j]
    ]_vars

\* C11 witness: the item at index 0 was deleted and the item that followed
\* it, which holds an image, is now the item at index 0.
C11_Witness ==
  /\ last.op = "deleteMenuChildItem"
  /\ last.status = "ok"
  /\ last.index = 0
  /\ FindActive(settings) # 0
  /\ Len(settings[FindActive(settings)].menuChildWithImage) = 1
  /\ settings[FindActive(settings)].menuChildWithImage[1].title = "Cake"

-----------------------------------------------------------------------------
(* Properties of the paginated queries (under SpecPage) *)

\* C12: for total >= 0, limit >= 1 and page >= 1, the metadata of
\* getPaginationMeta, getSiteSettingsHistory and findWithPagination has
\* totalPages = the least n with n * limit >= total, hasNextPage exactly
\* when page < totalPages and hasPrevPage exactly when page > 1, and gives
\* back total and page (and limit, where the metadata has it) as they were.
C12_Pagination ==
  last.op \in {"getPaginationMeta", "getSiteSettingsHistory", "findWithPagination"} =>
    LET m == last.meta IN
      /\ m.totalPages \in 0 .. last.total
      /\ m.totalPages * last.limit >= last.total
      /\ \A n \in 0 .. last.total : n * last.limit >= last.total => m.totalPages <= n
      /\ m.hasNextPage = (last.page < m.totalPages)
      /\ m.hasPrevPage = (last.page > 1)
      /\ m.total = last.total
      /\ m.page = last.page
      /\ ("limit" \in DOMAIN m => m.limit = last.limit)
      /\ (last.op # "getSiteSettingsHistory" => "limit" \in DOMAIN m)

\* C12 witness: 7 documents in pages of 3 make 3 pages; page 2 has a page
\* before it and a page after it.
C12_Witness ==
  /\ last.op = "getSiteSettingsHistory"
  /\ last.total = 7
  /\ last.limit = 3
  /\ last.page = 2
  /\ last.meta.totalPages = 3
  /\ last.meta.hasNextPage
  /\ last.meta.hasPrevPage

\* C13 (as stated, violated): when there are no documents the metadata of
\* getPaginationMeta and getSiteSettingsHistory has totalPages = 0 and
\* neither a next nor a previous page, for every page >= 1.
C13_EmptyCollection ==
  (last.op \in {"getPaginationMeta", "getSiteSettingsHistory"} /\ last.total = 0) =>
    /\ last.meta.totalPages = 0
    /\ ~last.meta.hasNextPage
    /\ ~last.meta.hasPrevPage

\* C13 (amended): when there are no documents the metadata has
\* totalPages = 0 and no next page for every page >= 1; it has a previous
\* page exactly when page > 1.
C13_EmptyCollectionAmended ==
  (last.op \in {"getPaginationMeta", "getSiteSettingsHistory"} /\ last.total = 0) =>
    /\ last.meta.totalPages = 0
    /\ ~last.meta.hasNextPage
    /\ last.meta.hasPrevPage = (last.page > 1)

\* C13 witness: page 2 of no documents was asked of getPaginationMeta.
C13_Witness ==
  /\ last.op = "getPaginationMeta"
  /\ last.total = 0
  /\ last.page = 2
  /\ last.meta.totalPages = 0
  /\ last.meta.hasPrevPage

\* C14: a getCurrentSiteSettings call made alone returns the active record
\* and writes nothing when there is one; when there is none it succeeds,
\* adds exactly one record, which is the only active one and the one
\* returned, and first creates the placeholder admin if no admin is found.
C14_LazyBootstrap ==
  [][last'.op = "getCurrentSiteSettings" =>
       IF FindActive(settings) # 0
       THEN /\ last'.status = "ok"
            /\ last'.target = FindActive(settings)
            /\ settings' = settings
            /\ admins' = admins
       ELSE /\ last'.status = "ok"
            /\ Len(settings') = Len(settings) + 1
            /\ ActiveIds(settings') = {Len(settings')}
            /\ last'.target = Len(settings')
            /\ (FindOneAdmin(admins) = 0 => Len(admins') = Len(admins) + 1)]_vars

\* C15: once every concurrent getCurrentSiteSettings call has completed
\* (here: without an error), the collection holds exactly one active record
\* and the bootstrap has created a single settings record.
C15_BootstrapIdempotent ==
  (\A p \in Procs : procs[p].pc = "done" /\ procs[p].status = "ok") =>
    /\ Cardinality(ActiveIds(settings)) = 1
    /\ Len(settings) = 1

\* C16: when restoreSiteSettings has stopped between its deactivate-all write
\* and its create write, no record is active, and the getCurrentSiteSettings
\* call that comes next succeeds and leaves exactly one active record.
C16_CrashRecovery ==
  [][(/\ last.op = "restoreSiteSettings"
      /\ last.status = "stopped"
      /\ last'.op = "getCurrentSiteSettings") =>
       /\ ActiveIds(settings) = {}
       /\ last'.status = "ok"
       /\ Cardinality(ActiveIds(settings')) = 1]_vars

C18_UpdateOrCreate ==
  [][last'.op = "updateSiteSettings" =>
       /\ last'.status = "ok" =>
            /\ FindActive(settings') # 0
            /\ settings'[FindActive(settings')].updatedBy = last'.actor
       /\ Len(settings') = Len(settings) + 1 <=> FindActive(settings) = 0
       /\ FindActive(settings) = 0 =>
            /\ last'.status = "ok"
            /\ settings'[Len(settings')].isActive]_vars

\* C19: loginAdmin with the email and password of an admin whose active flag
\* is not false succeeds, returns a token and sets lastLoginAt; with the
\* email and password of a deactivated admin, or with a wrong password, it
\* fails with 401, returns no token and leaves every lastLoginAt as it was.
C19_AdminLogin ==
  [][last'.op = "loginAdmin" =>
       \A i \in DOMAIN admins :
         admins[i].email = last'.email =>
           IF CorrectPassword(last'.password, admins[i].password) /\ admins[i].active # FALSE
           THEN /\ last'.status = "ok"
                /\ last'.token = SignToken(admins[i].id)
                /\ admins'[i].lastLoginAt > admins[i].lastLoginAt
                /\ admins' = [admins EXCEPT ![i].lastLoginAt = admins'[i].lastLoginAt]
           ELSE /\ last'.status = "401"
                /\ last'.token = NULL
                /\ admins' = admins]_vars

\* C19 witness: a deactivated admin has tried to log in with the right
\* password and was refused.
C19_Witness ==
  /\ last.op = "loginAdmin"
  /\ last.status = "401"
  /\ \E i \in DOMAIN admins :
       /\ admins[i].email = last.email
       /\ CorrectPassword(last.password, admins[i].password)
       /\ admins[i].active = FALSE

\* C20: createUser (createAdmin) called with an email that any user (admin)
\* record holds, a soft-deactivated one included, (and with data that is
\* valid otherwise) fails with the Conflict error of status 400 and creates
\* no record.
C20_DuplicateEmail ==
  [][/\ (/\ last'.op = "createUser"
         /\ ValidPassword(last'.password)
         /\ \E i \in DOMAIN users : users[i].email = last'.email) =>
          (last'.status = "400" /\ users' = users)
     /\ (/\ last'.op = "createAdmin"
         /\ ValidPassword(last'.password)
         /\ \E i \in DOMAIN admins : admins[i].email = last'.email) =>
          (last'.status = "400" /\ admins' = admins)]_vars

\* C21: createInitialAdmin creates an admin when the admin collection is
\* empty, and when at least one admin exists it fails with 400 and creates
\* no admin (both for every request whose data the schema accepts).
C21_SetupOnlyOnce ==
  [][last'.op = "createInitialAdmin" =>
       IF admins = << >>
       THEN ValidPassword(last'.password) => (last'.status = "ok" /\ Len(admins') = 1)
       ELSE ValidPassword(last'.password) => (last'.status = "400" /\ admins' = admins)]_vars

C23_ConcurrentRestore ==
  (\A p \in Procs : procs[p].pc = "done" /\ procs[p].status = "ok") =>
    Cardinality(ActiveIds(settings)) = 1

\* C24: a record whose isActive is false is still there and still has
\* isActive false after every step of getCurrent, update, restore, image and
\* menu operations.
C24_NeverReactivated ==
  [][\A i \in DOMAIN settings :
       ~settings[i].isActive => (i \in DOMAIN settings' /\ ~settings'[i].isActive)]_vars

\* C24 witness: a restore has named a record that is not active, and that
\* record is still not active.
C24_Witness ==
  /\ last.op = "restoreSiteSettings"
  /\ last.status = "ok"
  /\ last.target \in DOMAIN settings
  /\ last.target < Len(settings)
  /\ ~settings[last.target].isActive
  /\ settings[Len(settings)].isActive

\* C25: with the object store answering every upload and delete, the asset
\* id in the active record's backgroundImage is null or names an asset that
\* is in the object store.
C25_NoDanglingAsset ==
  FindActive(settings) # 0 =>
    \/ settings[FindActive(settings)].backgroundImage.fileId = NULL
    \/ settings[FindActive(settings)].backgroundImage.fileId \in assets

\* C26: when the upload step of updateBackgroundImage fails, the call fails,
\* the settings records are left as they were, and the asset the active
\* record's backgroundImage named before the call is still in the object store.
C26_UploadFailureKeepsAsset ==
  [][(/\ last'.op = "updateBackgroundImage"
      /\ last'.up = "fail"
      /\ FindActive(settings) # 0) =>
       /\ last'.status # "ok"
       /\ settings' = settings
       /\ \/ settings[FindActive(settings)].backgroundImage.fileId = NULL
          \/ settings[FindActive(settings)].backgroundImage.fileId \in assets']_vars

\* C27: a request to the addMenuChildItem or updateMenuChildItem handler with
\* an attached image that ends in 404 has created no asset in the object store.
C27_NoAssetOnNotFound ==
  [][(/\ last'.op \in {"addMenuChildItemRequest", "updateMenuChildItemRequest"}
      /\ ~last'.file.isNull
      /\ last'.status = "404") =>
       (assets' \subseteq assets /\ last'.uploaded = NULL)]_vars


\* the image calls that take a file, and all the image and menu item calls
ReplaceOps ==
  {"updateBackgroundImage", "updateAboutSectionImage", "updateMenuMainImage",
   "updateMenuChildImage"}
ImageAndMenuOps ==
  ReplaceOps \cup
  {"removeBackgroundImage", "removeAboutSectionImage", "removeMenuMainImage",
   "removeMenuChildImage", "addMenuChildItem", "updateMenuChildItem",
   "deleteMenuChildItem"}

\* an image or menu item call left the records and the object store alone
NothingTouched ==
  /\ settings' = settings
  /\ assets' = assets
  /\ uploads' = uploads
  /\ last'.attempted = {}
  /\ last'.uploaded = NULL

\* C28 (as stated): an image or menu item call made while no record is active
\* fails with 404, creates no record and neither uploads to nor deletes from
\* the object store.
C28_NeverBootstraps ==
  [][(last'.op \in ImageAndMenuOps /\ FindActive(settings) = 0) =>
       (last'.status = "404" /\ NothingTouched)]_vars

\* C28 (amended): an image or menu item call made while no record is active
\* creates no record and neither uploads to nor deletes from the object store;
\* it fails with 400 when it is an image update whose file validateImageFile
\* rejects, and with 404 otherwise.
C28_NeverBootstrapsAmended ==
  [][(last'.op \in ImageAndMenuOps /\ FindActive(settings) = 0) =>
       /\ NothingTouched
       /\ IF last'.op \in ReplaceOps /\ ValidateImageFile(last'.file) # "ok"
          THEN last'.status = "400"
          ELSE last'.status = "404"]_vars

\* C28 witness: records exist, none is active, the object store holds an
\* asset, and an image update with a file that passes every check ended in 404.
C28_Witness ==
  /\ last.op = "updateBackgroundImage"
  /\ last.file = GoodFile
  /\ last.status = "404"
  /\ Len(settings) > 0
  /\ FindActive(settings) = 0
  /\ assets # {}


\* the documents of coll whose active flag is off
Deactivated(coll) == {i \in DOMAIN coll : coll[i].active = FALSE}

\* C29: a soft-deleted user's record stays in the collection; a request with a
\* token signed for a user (an admin) whose active flag is off fails with 401
\* in authenticate (authenticateAdmin); and a login with the email and the
\* correct password of such a user or admin fails with 401.
C29_SoftDeleteRevokes ==
  [][/\ (last'.op = "deleteUser" /\ last'.status = "ok") =>
          /\ Len(users') = Len(users)
          /\ \E i \in DOMAIN users :
               /\ users[i].email = last'.email
               /\ users'[i] = [users[i] EXCEPT !.active = FALSE]
     /\ (/\ last'.op = "authenticate"
         /\ last'.token # NULL
         /\ \E i \in Deactivated(users) : users[i].id = Decoded(last'.token)) =>
          last'.status = "401"
     /\ (/\ last'.op = "loginUser"
         /\ \E i \in Deactivated(users) :
              /\ users[i].email = last'.email
              /\ CorrectPassword(last'.password, users[i].password)) =>
          last'.status = "401"
     /\ (/\ last'.op = "authenticateAdmin"
         /\ last'.token # NULL
         /\ \E i \in Deactivated(admins) : admins[i].id = Decoded(last'.token)) =>
          last'.status = "401"
     /\ (/\ last'.op = "loginAdmin"
         /\ \E i \in Deactivated(admins) :
              /\ admins[i].email = last'.email
              /\ CorrectPassword(last'.password, admins[i].password)) =>
          last'.status = "401"]_vars

\* C29 witness: a request with the token of a soft-deleted user, whose record
\* is still there, was refused with 401, while another user is still active.
C29_Witness ==
  /\ last.op = "authenticate"
  /\ last.status = "401"
  /\ \E i \in Deactivated(users) : last.token = SignToken(users[i].id)
  /\ Visible(users) # {}


\* the documents a getAll request selects, before they are cut into pages
Selected(coll, query) == Sort(Filter(Find(coll), query))

\* C30: after a getAll request, meta.total is the number of documents that
\* match the request's filter, and hasNextPage is true only if the next page
\* of the filtered query has a document.
C30_MetaDescribesResult ==
  last.op = "getAll" =>
    /\ last.meta.total = Len(Selected(users, last.query))
    /\ last.meta.hasNextPage =>
         Paginate(Selected(users, last.query), PageOf(last.query) + 1,
                  LimitOf(last.query)) # << >>

====
